---- MODULE Spec2Model ----
(***************************************************************************)
(* A model of sqlite_mcp_server.py: the request handlers (MCP tools), the  *)
(* statements they build and hand to the embedded engine, and the engine   *)
(* (SQLite behind Python's sqlite3 module) as far as the handlers use it.  *)
(*                                                                         *)
(* Text is modelled as text: statements are strings built by the same      *)
(* concatenations as the f-strings of the source, and the engine tokenizes *)
(* the string it is handed.  Values are records [t, v] with v a string.    *)
(***************************************************************************)
EXTENDS Integers, Sequences, FiniteSets, TLC

VARIABLES
    db,        \* the committed database file: tables, indexes, triggers
    conns,     \* connections opened by finished requests and never closed
    req,       \* the last request: operation and arguments
    result,    \* the record the last request returned
    stmts,     \* the statements the last request handed to the engine
    commits,   \* calls of Connection.commit during the last request
    rollbacks, \* calls of Connection.rollback during the last request
    srcRead,   \* source rows the last request read from its import file
    dbBefore,  \* the committed database when the last request started
    written,   \* the file the last export to a path wrote, and of which table
    other      \* what another process does to the file during the request

vars ==
    <<db, conns, req, result, stmts, commits, rollbacks, srcRead, dbBefore, written, other>>

----------------------------------------------------------------------------
(* Bounds of the model. *)

\* Rows a table may hold; requests that would exceed it are not issued.
MaxRows == 2
\* Connections left open that the model counts before the runtime reclaims.
MaxConns == 1

----------------------------------------------------------------------------
(* Strings: Python's str methods used by the source. *)

Ch(s, i) == SubSeq(s, i, i)

From(s, i) == SubSeq(s, i, Len(s))

\* The upper-case form of each lower-case letter
UpperOf ==
    [a |-> "A", b |-> "B", c |-> "C", d |-> "D", e |-> "E", f |-> "F",
     g |-> "G", h |-> "H", i |-> "I", j |-> "J", k |-> "K", l |-> "L",
     m |-> "M", n |-> "N", o |-> "O", p |-> "P", q |-> "Q", r |-> "R",
     s |-> "S", t |-> "T", u |-> "U", v |-> "V", w |-> "W", x |-> "X",
     y |-> "Y", z |-> "Z"]

\* The lower-case form of each upper-case letter
LowerOf ==
    [A |-> "a", B |-> "b", C |-> "c", D |-> "d", E |-> "e", F |-> "f",
     G |-> "g", H |-> "h", I |-> "i", J |-> "j", K |-> "k", L |-> "l",
     M |-> "m", N |-> "n", O |-> "o", P |-> "p", Q |-> "q", R |-> "r",
     S |-> "s", T |-> "t", U |-> "u", V |-> "v", W |-> "w", X |-> "x",
     Y |-> "y", Z |-> "z"]

UpperCh(c) == IF c \in DOMAIN UpperOf THEN UpperOf[c] ELSE c

LowerCh(c) == IF c \in DOMAIN LowerOf THEN LowerOf[c] ELSE c

RECURSIVE Upper(_)
\* str.upper()
Upper(s) == IF Len(s) = 0 THEN "" ELSE UpperCh(Ch(s, 1)) \o Upper(From(s, 2))

RECURSIVE Lower(_)
\* str.lower()
Lower(s) == IF Len(s) = 0 THEN "" ELSE LowerCh(Ch(s, 1)) \o Lower(From(s, 2))

\* str.startswith(p)
StartsWith(s, p) == Len(s) >= Len(p) /\ SubSeq(s, 1, Len(p)) = p

\* p in s
Contains(s, p) == \E i \in 1..(Len(s) - Len(p) + 1) : SubSeq(s, i, i + Len(p) - 1) = p

\* The characters str.strip() removes that the model's inputs use.
IsSpace(c) == c \in {" ", "\t", "\n", "\r"}

RECURSIVE LStrip(_)
LStrip(s) == IF Len(s) > 0 /\ IsSpace(Ch(s, 1)) THEN LStrip(From(s, 2)) ELSE s

RECURSIVE RStrip(_)
RStrip(s) ==
    IF Len(s) > 0 /\ IsSpace(Ch(s, Len(s))) THEN RStrip(SubSeq(s, 1, Len(s) - 1)) ELSE s

\* str.strip()
Strip(s) == RStrip(LStrip(s))

RECURSIVE Join(_, _)
\* sep.join(parts)
Join(parts, sep) ==
    IF Len(parts) = 0 THEN ""
    ELSE IF Len(parts) = 1 THEN parts[1]
    ELSE parts[1] \o sep \o Join(Tail(parts), sep)

DigitVal(c) ==
    CASE c = "0" -> 0 [] c = "1" -> 1 [] c = "2" -> 2 [] c = "3" -> 3 [] c = "4" -> 4
      [] c = "5" -> 5 [] c = "6" -> 6 [] c = "7" -> 7 [] c = "8" -> 8 [] c = "9" -> 9

DigitCh(d) == Ch("0123456789", d + 1)

RECURSIVE ToNat(_)
\* int(s) of a string of digits
ToNat(s) ==
    IF Len(s) = 0 THEN 0
    ELSE 10 * ToNat(SubSeq(s, 1, Len(s) - 1)) + DigitVal(Ch(s, Len(s)))

RECURSIVE NatStr(_)
\* str(n) of a natural number
NatStr(n) == IF n < 10 THEN DigitCh(n) ELSE NatStr(n \div 10) \o DigitCh(n % 10)

\* str(n) of an integer
IntStr(n) == IF n < 0 THEN "-" \o NatStr(-n) ELSE NatStr(n)

\* x in seq (list membership)
InSeq(x, seq) == \E i \in 1..Len(seq) : seq[i] = x

\* The list a comprehension builds, its elements computed once.
List(f) == f \o <<>>

\* The least of a set of positions, or 0 when there is none.
First(at) == IF at = {} THEN 0 ELSE CHOOSE i \in at : \A j \in at : i <= j

----------------------------------------------------------------------------
(* Values.  A value is [t, v]: t is "null", "text" or "int", v its text.   *)

Null == [t |-> "null", v |-> ""]
TextV(s) == [t |-> "text", v |-> s]
IntV(s) == [t |-> "int", v |-> s]

----------------------------------------------------------------------------
(* The engine's tokenizer (SQLite's, for the statement shapes the server   *)
(* builds and the statements the model's callers send).  A token is        *)
(* [k, v]: k is "id" (a bare word), "qid" (a quoted identifier, v its      *)
(* unquoted name), "str", "num", "par" (?), "p" (punctuation) or "bad".    *)

Letters ==
    {"a", "b", "c", "d", "e", "f", "g", "h", "i", "j", "k", "l", "m", "n", "o", "p",
     "q", "r", "s", "t", "u", "v", "w", "x", "y", "z", "A", "B", "C", "D", "E", "F",
     "G", "H", "I", "J", "K", "L", "M", "N", "O", "P", "Q", "R", "S", "T", "U", "V",
     "W", "X", "Y", "Z", "_"}

Digits == {"0", "1", "2", "3", "4", "5", "6", "7", "8", "9"}

Puncts == {"(", ")", ",", "*", "=", ";", "."}

\* The characters of a word
WordChars == Letters \cup Digits

RECURSIVE RunLen(_, _)
\* The length of the longest prefix of s made of characters of cs.
RunLen(s, cs) == IF Len(s) > 0 /\ Ch(s, 1) \in cs THEN 1 + RunLen(From(s, 2), cs) ELSE 0

RECURSIVE LineLen(_)
\* The length of a -- comment: up to and including the end of the line.
LineLen(s) ==
    IF Len(s) = 0 THEN 0 ELSE IF Ch(s, 1) = "\n" THEN 1 ELSE 1 + LineLen(From(s, 2))

RECURSIVE ReadQuoted(_, _, _)
\* s follows an opening quote q: the name up to the closing q (a doubled q is
\* one q of the name) and the text after it; ok is FALSE when q never closes.
ReadQuoted(s, q, acc) ==
    IF Len(s) = 0 THEN [ok |-> FALSE, name |-> acc, rest |-> ""]
    ELSE IF Ch(s, 1) = q
         THEN IF Len(s) >= 2 /\ Ch(s, 2) = q
              THEN ReadQuoted(From(s, 3), q, acc \o q)
              ELSE [ok |-> TRUE, name |-> acc, rest |-> From(s, 2)]
         ELSE ReadQuoted(From(s, 2), q, acc \o Ch(s, 1))

\* The character ` (a string literal cannot hold it alone).
Backtick == SubSeq("`'", 1, 1)

\* u is the upper-case form of a word (the engine's keywords and names are
\* compared without regard to case); for the other tokens it is v.
Tok(k, v, raw) == [k |-> k, v |-> v, raw |-> raw, u |-> v]

Word(w) == [k |-> "id", v |-> w, raw |-> w, u |-> Upper(w)]

RECURSIVE Tokenize(_)
Tokenize(s) ==
    IF Len(s) = 0 THEN <<>>
    ELSE LET c == Ch(s, 1) IN
         IF IsSpace(c) THEN Tokenize(From(s, 2))
         ELSE IF StartsWith(s, "--") THEN Tokenize(From(s, LineLen(s) + 1))
         ELSE IF c \in Letters
              THEN LET n == RunLen(s, WordChars)
                   IN <<Word(SubSeq(s, 1, n))>> \o Tokenize(From(s, n + 1))
         ELSE IF c \in Digits
              THEN LET n == RunLen(s, WordChars)
                       k == IF n = RunLen(s, Digits) THEN "num" ELSE "bad"
                   IN <<Tok(k, SubSeq(s, 1, n), SubSeq(s, 1, n))>> \o Tokenize(From(s, n + 1))
         ELSE IF c \in {"\"", Backtick, "'"}
              THEN LET r == ReadQuoted(From(s, 2), c, "")
                       raw == SubSeq(s, 1, Len(s) - Len(r.rest))
                   IN IF r.ok
                      THEN <<Tok(IF c = "'" THEN "str" ELSE "qid", r.name, raw)>>
                           \o Tokenize(r.rest)
                      ELSE <<Tok("bad", s, s)>>
         ELSE IF c = "?" THEN <<Tok("par", c, c)>> \o Tokenize(From(s, 2))
         ELSE IF c \in Puncts THEN <<Tok("p", c, c)>> \o Tokenize(From(s, 2))
         ELSE <<Tok("bad", c, c)>>

----------------------------------------------------------------------------
(* The engine's parser.  A statement is [k, ...]: k names its shape, or is  *)
(* "error" with msg the engine's message.                                   *)

\* Words the engine never takes as a bare name.
Reserved ==
    {"SELECT", "FROM", "WHERE", "ORDER", "TABLE", "INSERT", "INTO", "VALUES", "CREATE",
     "DROP", "DELETE", "LIMIT", "AND", "AS", "WITH", "DEFAULT", "NULL", "INDEX", "ON"}

Kw(t, i, w) == i <= Len(t) /\ t[i].k = "id" /\ t[i].u = w

Pn(t, i, c) == i <= Len(t) /\ t[i].k = "p" /\ t[i].v = c

IsName(t, i) ==
    i <= Len(t) /\ (t[i].k = "qid" \/ (t[i].k = "id" /\ t[i].u \notin Reserved))

Ast0 ==
    [k |-> "error", tbl |-> "", traw |-> "", proj |-> "", pcol |-> "", conds |-> <<>>,
     limit |-> -1, cols |-> <<>>, vals |-> <<>>, npar |-> 0, inner |-> "", msg |-> ""]

\* The engine's complaint about token i of t (or about t ending too soon).
SyntaxError(t, i) ==
    [Ast0 EXCEPT !.msg =
        IF i > Len(t) THEN "incomplete input"
        ELSE IF t[i].k = "bad" THEN "unrecognized token: \"" \o t[i].raw \o "\""
        ELSE "near \"" \o t[i].raw \o "\": syntax error"]

\* The number of ? among the tokens.
ParCount(t) == Cardinality({i \in 1..Len(t) : t[i].k = "par"})

RECURSIVE ParseConds(_, _, _)
\* t from i on: cond {AND cond}, cond being name (= | LIKE) (literal | ?).
\* [ok, conds, next]; a ? is numbered in its order among the conditions.
ParseConds(t, i, acc) ==
    IF IsName(t, i)
         /\ (Pn(t, i + 1, "=") \/ Kw(t, i + 1, "LIKE"))
         /\ i + 2 <= Len(t) /\ t[i + 2].k \in {"str", "num", "par"}
    THEN LET seen == Cardinality({j \in 1..Len(acc) : acc[j].par})
             cond == [col |-> t[i].v,
                      op |-> IF Pn(t, i + 1, "=") THEN "=" ELSE "LIKE",
                      par |-> t[i + 2].k = "par",
                      val |-> IF t[i + 2].k = "num" THEN IntV(t[i + 2].v)
                              ELSE TextV(t[i + 2].v)]
             all == Append(acc, cond)
         IN IF Kw(t, i + 3, "AND") THEN ParseConds(t, i + 4, all)
            ELSE [ok |-> TRUE, conds |-> all, next |-> i + 3]
    ELSE [ok |-> FALSE, conds |-> acc,
          next |-> IF ~IsName(t, i) THEN i
                   ELSE IF ~(Pn(t, i + 1, "=") \/ Kw(t, i + 1, "LIKE")) THEN i + 1
                   ELSE i + 2]

\* SELECT ... after its projection: [FROM name [WHERE conds] [LIMIT n]].
ParseFrom(t, i, a) ==
    IF i > Len(t) /\ a.proj = "const" THEN a
    ELSE IF ~Kw(t, i, "FROM") THEN SyntaxError(t, i)
    ELSE IF ~IsName(t, i + 1) THEN SyntaxError(t, i + 1)
    ELSE LET Limited(b, w, j) ==
                 IF ~w.ok THEN SyntaxError(t, j)
                 ELSE IF j > Len(t) THEN b
                 ELSE IF Kw(t, j, "LIMIT") /\ j + 1 = Len(t) /\ t[j + 1].k = "num"
                      THEN [b EXCEPT !.limit = ToNat(t[j + 1].v)]
                 ELSE IF Kw(t, j, "LIMIT") THEN SyntaxError(t, j + 1)
                 ELSE SyntaxError(t, j)
             Where(w) ==
                 Limited([a EXCEPT !.tbl = t[i + 1].v, !.traw = t[i + 1].raw, !.conds = w.conds],
                         w, w.next)
         IN Where(IF Kw(t, i + 2, "WHERE") THEN ParseConds(t, i + 3, <<>>)
                  ELSE [ok |-> TRUE, conds |-> <<>>, next |-> i + 2])

\* The projection of a SELECT: what it is, the column it names and the token
\* after it (0 when the tokens hold no projection).
ParseProjection(t) ==
    IF Pn(t, 2, "*") THEN [proj |-> "*", pcol |-> "", next |-> 3]
    ELSE IF Kw(t, 2, "COUNT") /\ Pn(t, 3, "(") /\ Pn(t, 4, "*") /\ Pn(t, 5, ")")
         THEN [proj |-> "count", pcol |-> t[2].raw \o "(*)", next |-> 6]
    ELSE IF 2 <= Len(t) /\ t[2].k = "num"
         THEN [proj |-> "const", pcol |-> t[2].v, next |-> 3]
    ELSE IF IsName(t, 2) /\ Pn(t, 3, "(") /\ Pn(t, 4, ")")
         THEN [proj |-> "const", pcol |-> t[2].v \o "()", next |-> 5]
    ELSE IF IsName(t, 2)
         THEN [proj |-> IF Ch(t[2].raw, 1) = "\"" THEN "dq" ELSE "col", pcol |-> t[2].v,
               next |-> 3]
    ELSE [proj |-> "", pcol |-> "", next |-> 0]

ParseSelect(t) ==
    LET Projected(p) ==
            IF p.next = 0 THEN SyntaxError(t, 2)
            ELSE ParseFrom(t, p.next,
                           [Ast0 EXCEPT !.k = "select", !.proj = p.proj, !.pcol = p.pcol])
    IN Projected(ParseProjection(t))


ParsePragma(t) ==
    IF ~(2 <= Len(t) /\ t[2].k = "id") THEN SyntaxError(t, 2)
    ELSE LET a == [Ast0 EXCEPT !.k = "pragma", !.proj = Lower(t[2].v)] IN
         IF Len(t) = 2 THEN a
         ELSE IF ~Pn(t, 3, "(") THEN SyntaxError(t, 3)
         ELSE IF ~(IsName(t, 4) \/ (4 <= Len(t) /\ t[4].k = "id")) THEN SyntaxError(t, 4)
         ELSE IF ~Pn(t, 5, ")") THEN SyntaxError(t, 5)
         ELSE IF Len(t) > 5 THEN SyntaxError(t, 6)
         ELSE [a EXCEPT !.tbl = t[4].v, !.traw = t[4].raw]

RECURSIVE ParseColDefs(_, _, _)
\* t from i on: name [type] {, name [type]} ) and nothing more.
ParseColDefs(t, i, acc) ==
    IF ~IsName(t, i) THEN [ok |-> FALSE, cols |-> acc, next |-> i]
    ELSE LET typed == i + 1 <= Len(t) /\ t[i + 1].k = "id"
             col == [name |-> t[i].v, type |-> IF typed THEN t[i + 1].u ELSE ""]
             j == IF typed THEN i + 2 ELSE i + 1
             all == Append(acc, col)
         IN IF Pn(t, j, ",") THEN ParseColDefs(t, j + 1, all)
            ELSE IF Pn(t, j, ")") /\ j = Len(t) THEN [ok |-> TRUE, cols |-> all, next |-> j + 1]
            ELSE [ok |-> FALSE, cols |-> all, next |-> IF Pn(t, j, ")") THEN j + 1 ELSE j]

ParseCreate(t) ==
    IF ~Kw(t, 2, "TABLE") THEN SyntaxError(t, 2)
    ELSE IF ~IsName(t, 3) THEN SyntaxError(t, 3)
    ELSE IF ~Pn(t, 4, "(") THEN SyntaxError(t, 4)
    ELSE LET Defined(d) ==
                 IF ~d.ok THEN SyntaxError(t, d.next)
                 ELSE [Ast0 EXCEPT !.k = "create", !.tbl = t[3].v, !.traw = t[3].raw,
                                   !.cols = d.cols]
         IN Defined(ParseColDefs(t, 5, <<>>))

RECURSIVE ParseNames(_, _, _)
\* t from i on: name {, name} )
ParseNames(t, i, acc) ==
    IF ~IsName(t, i) THEN [ok |-> FALSE, names |-> acc, next |-> i]
    ELSE IF Pn(t, i + 1, ",") THEN ParseNames(t, i + 2, Append(acc, t[i].v))
    ELSE IF Pn(t, i + 1, ")") THEN [ok |-> TRUE, names |-> Append(acc, t[i].v), next |-> i + 2]
    ELSE [ok |-> FALSE, names |-> acc, next |-> i + 1]

RECURSIVE ParseValues(_, _, _)
\* t from i on: value {, value} ) and nothing more; a value is ?, a literal or NULL.
\* A ? is kept as [t |-> "par", v |-> its number].
ParseValues(t, i, acc) ==
    IF ~(i <= Len(t) /\ (t[i].k \in {"par", "str", "num"} \/ Kw(t, i, "NULL")))
    THEN [ok |-> FALSE, vals |-> acc, next |-> i]
    ELSE LET seen == Cardinality({j \in 1..Len(acc) : acc[j].t = "par"})
             val == IF t[i].k = "par" THEN [t |-> "par", v |-> NatStr(seen + 1)]
                    ELSE IF t[i].k = "str" THEN TextV(t[i].v)
                    ELSE IF t[i].k = "num" THEN IntV(t[i].v)
                    ELSE Null
             all == Append(acc, val)
         IN IF Pn(t, i + 1, ",") THEN ParseValues(t, i + 2, all)
            ELSE IF Pn(t, i + 1, ")") /\ i + 1 = Len(t)
                 THEN [ok |-> TRUE, vals |-> all, next |-> i + 2]
            ELSE [ok |-> FALSE, vals |-> all, next |-> IF Pn(t, i + 1, ")") THEN i + 2 ELSE i + 1]

ParseInsert(t) ==
    IF ~Kw(t, 2, "INTO") THEN SyntaxError(t, 2)
    ELSE IF ~IsName(t, 3) THEN SyntaxError(t, 3)
    ELSE LET a == [Ast0 EXCEPT !.k = "insert", !.tbl = t[3].v, !.traw = t[3].raw]
             Valued(n, v) ==
                 IF ~v.ok THEN SyntaxError(t, v.next)
                 ELSE [a EXCEPT !.proj = IF Pn(t, 4, "(") THEN "named" ELSE "all",
                                !.cols = n.names, !.vals = v.vals]
             Named(n, j) ==
                 IF ~n.ok THEN SyntaxError(t, j)
                 ELSE IF Kw(t, j, "DEFAULT") /\ Kw(t, j + 1, "VALUES") /\ j + 1 = Len(t)
                         /\ ~Pn(t, 4, "(")
                      THEN [a EXCEPT !.proj = "default"]
                 ELSE IF ~Kw(t, j, "VALUES") THEN SyntaxError(t, j)
                 ELSE IF ~Pn(t, j + 1, "(") THEN SyntaxError(t, j + 1)
                 ELSE Valued(n, ParseValues(t, j + 2, <<>>))
             Listed(n) == Named(n, n.next)
         IN Listed(IF Pn(t, 4, "(") THEN ParseNames(t, 5, <<>>)
                   ELSE [ok |-> TRUE, names |-> <<>>, next |-> 4])

\* DELETE FROM name | DROP TABLE name
ParseDeleteDrop(t) ==
    LET del == Kw(t, 1, "DELETE") IN
    IF ~Kw(t, 2, IF del THEN "FROM" ELSE "TABLE") THEN SyntaxError(t, 2)
    ELSE IF ~IsName(t, 3) THEN SyntaxError(t, 3)
    ELSE IF Len(t) > 3 THEN SyntaxError(t, 4)
    ELSE [Ast0 EXCEPT !.k = IF del THEN "delete" ELSE "drop", !.tbl = t[3].v, !.traw = t[3].raw]

\* WITH x AS (SELECT n) SELECT * FROM x: the one common table expression modelled.
ParseWith(t) ==
    IF ~IsName(t, 2) THEN SyntaxError(t, 2)
    ELSE IF ~Kw(t, 3, "AS") THEN SyntaxError(t, 3)
    ELSE IF ~Pn(t, 4, "(") THEN SyntaxError(t, 4)
    ELSE IF ~Kw(t, 5, "SELECT") THEN SyntaxError(t, 5)
    ELSE IF ~(6 <= Len(t) /\ t[6].k = "num") THEN SyntaxError(t, 6)
    ELSE IF ~Pn(t, 7, ")") THEN SyntaxError(t, 7)
    ELSE IF ~Kw(t, 8, "SELECT") THEN SyntaxError(t, 8)
    ELSE IF ~Pn(t, 9, "*") THEN SyntaxError(t, 9)
    ELSE IF ~Kw(t, 10, "FROM") THEN SyntaxError(t, 10)
    ELSE IF ~(IsName(t, 11) /\ Lower(t[11].v) = Lower(t[2].v)) THEN SyntaxError(t, 11)
    ELSE IF Len(t) > 11 THEN SyntaxError(t, 12)
    ELSE [Ast0 EXCEPT !.k = "select", !.proj = "const", !.pcol = t[6].v]

\* One statement, its tokens t not empty and without a closing semicolon.
ParseOne(t) ==
    IF Kw(t, 1, "SELECT") THEN ParseSelect(t)
    ELSE IF Kw(t, 1, "PRAGMA") THEN ParsePragma(t)
    ELSE IF Kw(t, 1, "CREATE") THEN ParseCreate(t)
    ELSE IF Kw(t, 1, "INSERT") THEN ParseInsert(t)
    ELSE IF Kw(t, 1, "DELETE") \/ Kw(t, 1, "DROP") THEN ParseDeleteDrop(t)
    ELSE IF Kw(t, 1, "WITH") THEN ParseWith(t)
    ELSE SyntaxError(t, 1)

\* The position of the first semicolon of t, or 0.
FirstSemi(t) == First({i \in 1..Len(t) : Pn(t, i, ";")})

\* The statement a text holds, from its tokens.  EXPLAIN [QUERY PLAN] s is [k "explain", inner s].
ParseTokens(all) ==
    LET Parsed(semi, t, a) ==
            IF semi # 0 /\ semi < Len(all)
            THEN [Ast0 EXCEPT !.msg = "You can only execute one statement at a time."]
            ELSE IF Len(all) = 0 THEN [Ast0 EXCEPT !.k = "empty"]
            ELSE IF a.k = "error" THEN a
            ELSE [a EXCEPT !.npar = ParCount(t),
                           !.inner = IF Kw(t, 1, "EXPLAIN") THEN a.k ELSE "",
                           !.k = IF Kw(t, 1, "EXPLAIN") THEN "explain" ELSE a.k]
        Body(semi, t, body) ==
            Parsed(semi, t, IF Len(body) = 0 THEN SyntaxError(t, Len(t) + 1) ELSE ParseOne(body))
        Statement(semi, t) ==
            Body(semi, t, IF Kw(t, 1, "EXPLAIN")
                          THEN IF Kw(t, 2, "QUERY") /\ Kw(t, 3, "PLAN") THEN SubSeq(t, 4, Len(t))
                               ELSE SubSeq(t, 2, Len(t))
                          ELSE t)
        Upto(semi) == Statement(semi, IF semi = 0 THEN all ELSE SubSeq(all, 1, semi - 1))
    IN Upto(FirstSemi(all))

Parse(text) == ParseTokens(Tokenize(text))

----------------------------------------------------------------------------
(* The database.  It is the sequence of its catalog entries in creation    *)
(* order (the order sqlite_master lists them); a table's entry holds its   *)
(* columns [name, type] and its rows, an index's entry its columns.        *)

Entry(type, name, tbl, sql, cols, rows) ==
    [type |-> type, name |-> name, tbl_name |-> tbl, sql |-> sql, cols |-> cols, rows |-> rows]

Col(name, type) == [name |-> name, type |-> type]

SameName(a, b) == a = b \/ Lower(a) = Lower(b)

MasterCols ==
    <<Col("type", "TEXT"), Col("name", "TEXT"), Col("tbl_name", "TEXT"),
      Col("rootpage", "INT"), Col("sql", "TEXT")>>

MasterRow(e) == <<TextV(e.type), TextV(e.name), TextV(e.tbl_name), IntV("0"), TextV(e.sql)>>

\* The table (or the catalog itself) a name denotes to the engine: names are
\* compared without regard to case.
Resolve(d, n) ==
    IF Lower(n) \in {"sqlite_master", "sqlite_schema"}
    THEN [found |-> TRUE, at |-> 0, cols |-> MasterCols, rows |-> List([i \in 1..Len(d) |-> MasterRow(d[i])])]
    ELSE LET At(i) ==
                 IF i = 0 THEN [found |-> FALSE, at |-> 0, cols |-> <<>>, rows |-> <<>>]
                 ELSE [found |-> TRUE, at |-> i, cols |-> d[i].cols, rows |-> d[i].rows]
         IN At(First({i \in 1..Len(d) : d[i].type = "table" /\ SameName(d[i].name, n)}))

ColIndex(cols, n) == First({i \in 1..Len(cols) : SameName(cols[i].name, n)})

RECURSIVE LikeMatch(_, _)
\* value LIKE pattern: % is any run of characters, _ any one; case is ignored.
LikeMatch(p, s) ==
    IF Len(p) = 0 THEN Len(s) = 0
    ELSE IF Ch(p, 1) = "%"
         THEN LikeMatch(From(p, 2), s) \/ (Len(s) > 0 /\ LikeMatch(p, From(s, 2)))
    ELSE Len(s) > 0
         /\ (Ch(p, 1) = "_" \/ LowerCh(Ch(p, 1)) = LowerCh(Ch(s, 1)))
         /\ LikeMatch(From(p, 2), From(s, 2))

\* The value a column of the declared type stores for a bound or literal value.
Affinity(type, val) ==
    IF Contains(Upper(type), "INT")
    THEN IF val.t = "text" /\ Len(val.v) > 0 /\ RunLen(val.v, Digits) = Len(val.v)
         THEN IntV(val.v) ELSE val
    ELSE IF Contains(Upper(type), "TEXT") \/ Contains(Upper(type), "CHAR")
         THEN IF val.t = "int" THEN TextV(val.v) ELSE val
    ELSE val

Res0 ==
    [err |-> "", phase |-> "", cols |-> <<>>, rows |-> <<>>, rowcount |-> -1,
     desc |-> FALSE, db |-> <<>>]

Fail(d, phase, msg) == [Res0 EXCEPT !.err = msg, !.phase = phase, !.db = d]

\* The value of condition i of a under the bound parameters.
CondVal(a, params, i) ==
    IF a.conds[i].par
    THEN params[Cardinality({j \in 1..i : a.conds[j].par})]
    ELSE a.conds[i].val

EvalSelect(d, a, params) ==
    IF a.tbl = "" /\ a.proj = "const"
    THEN [Res0 EXCEPT !.cols = <<a.pcol>>, !.desc = TRUE, !.db = d,
                      !.rows = <<<<IF RunLen(a.pcol, Digits) = Len(a.pcol)
                                   THEN IntV(a.pcol) ELSE TextV("3.40.1")>>>>]
    ELSE LET \* rel is the table, at the position of each condition's column,
             \* wants the value each is compared with, pc the projected column.
             Selected(rel, at, wants, pc) ==
                 LET badCond == {i \in 1..Len(a.conds) : at[i] = 0}
                     Keep(row) ==
                         \A i \in 1..Len(a.conds) :
                             IF a.conds[i].op = "="
                             THEN row[at[i]].t # "null" /\ row[at[i]] = wants[i]
                             ELSE row[at[i]].t # "null" /\ wants[i].t # "null"
                                  /\ LikeMatch(wants[i].v, row[at[i]].v)
                     Rows(kept, cut) ==
                         [Res0 EXCEPT
                            !.desc = TRUE, !.db = d,
                            !.cols = CASE a.proj = "*" -> List([i \in 1..Len(rel.cols) |-> rel.cols[i].name])
                                       [] a.proj = "count" -> <<a.pcol>>
                                       [] a.proj = "dq" /\ pc = 0 -> <<"\"" \o a.pcol \o "\"">>
                                       [] OTHER -> <<a.pcol>>,
                            !.rows = CASE a.proj = "*" -> cut
                                       [] a.proj = "count" -> <<<<IntV(NatStr(Len(kept)))>>>>
                                       [] a.proj = "dq" /\ pc = 0 ->
                                            List([i \in 1..Len(cut) |-> <<TextV(a.pcol)>>])
                                       [] OTHER -> List([i \in 1..Len(cut) |-> <<cut[i][pc]>>])]
                     Kept(kept) ==
                         Rows(kept, IF a.limit >= 0 /\ a.limit < Len(kept)
                                    THEN SubSeq(kept, 1, a.limit) ELSE kept)
                 IN IF ~rel.found THEN Fail(d, "prepare", "no such table: " \o a.tbl)
                    ELSE IF a.proj = "col" /\ pc = 0
                         THEN Fail(d, "prepare", "no such column: " \o a.pcol)
                    ELSE IF badCond # {}
                         THEN Fail(d, "prepare", "no such column: "
                                    \o a.conds[First(badCond)].col)
                    ELSE IF a.npar # Len(params)
                         THEN Fail(d, "bind", "Incorrect number of bindings supplied.")
                    ELSE Kept(SelectSeq(rel.rows, Keep))
             Placed(rel, at) ==
                 Selected(rel, at,
                          List([i \in 1..Len(a.conds) |->
                                   IF a.conds[i].op = "=" /\ at[i] # 0
                                   THEN Affinity(rel.cols[at[i]].type, CondVal(a, params, i))
                                   ELSE CondVal(a, params, i)]),
                          ColIndex(rel.cols, a.pcol))
             Over(rel) ==
                 Placed(rel, List([i \in 1..Len(a.conds) |->
                                      ColIndex(rel.cols, a.conds[i].col)]))
         IN Over(Resolve(d, a.tbl))

TableInfoCols == <<"cid", "name", "type", "notnull", "dflt_value", "pk">>

\* What the pragmas without an argument report of the file: pages of 4096
\* bytes, the schema page and one page for each table and index, none free,
\* the default journal and synchronous modes.
FileFact(d, pragma) ==
    LET Root(e) == e.type \in {"table", "index"} IN
    CASE pragma = "page_size" -> IntV("4096")
      [] pragma = "page_count" -> IntV(NatStr(1 + Len(SelectSeq(d, Root))))
      [] pragma = "freelist_count" -> IntV("0")
      [] pragma = "journal_mode" -> TextV("delete")
      [] pragma = "synchronous" -> IntV("2")

EvalPragma(d, a) ==
    LET \* rel is the table named, idx the indexes on it, ix the index named.
        Info(rel, idx, ix) ==
            CASE a.proj = "table_info" ->
                   [Res0 EXCEPT !.desc = TRUE, !.db = d, !.cols = TableInfoCols,
                                !.rows = [i \in 1..Len(rel.cols) |->
                                             <<IntV(NatStr(i - 1)), TextV(rel.cols[i].name),
                                               TextV(rel.cols[i].type), IntV("0"), Null,
                                               IntV("0")>>]]
              [] a.proj = "index_list" ->
                   [Res0 EXCEPT !.desc = TRUE, !.db = d,
                                !.cols = <<"seq", "name", "unique", "origin", "partial">>,
                                !.rows = [i \in 1..Len(idx) |->
                                             <<IntV(NatStr(i - 1)), TextV(idx[i].name), IntV("0"),
                                               TextV("c"), IntV("0")>>]]
              [] a.proj = "index_info" ->
                   [Res0 EXCEPT !.desc = TRUE, !.db = d, !.cols = <<"seqno", "cid", "name">>,
                                !.rows = IF ix = 0 THEN <<>>
                                         ELSE [i \in 1..Len(d[ix].cols) |->
                                                  <<IntV(NatStr(i - 1)), IntV(NatStr(i - 1)),
                                                    TextV(d[ix].cols[i].name)>>]]
              [] a.proj = "foreign_key_list" ->
                   [Res0 EXCEPT !.desc = TRUE, !.db = d,
                                !.cols = <<"id", "seq", "table", "from", "to">>]
              [] a.proj = "database_list" ->
                   [Res0 EXCEPT !.desc = TRUE, !.db = d, !.cols = <<"seq", "name", "file">>,
                                !.rows = <<<<IntV("0"), TextV("main"), TextV("app.db")>>>>]
              [] a.proj \in {"page_size", "page_count", "freelist_count", "journal_mode",
                             "synchronous"} ->
                   [Res0 EXCEPT !.desc = TRUE, !.db = d, !.cols = <<a.proj>>,
                                !.rows = <<<<FileFact(d, a.proj)>>>>]
              [] OTHER -> [Res0 EXCEPT !.db = d]
        Of(rel) ==
            LET OnTable(e) ==
                    e.type = "index" /\ rel.found /\ rel.at # 0 /\ e.tbl_name = d[rel.at].name
            IN Info(rel, SelectSeq(d, OnTable),
                    First({i \in 1..Len(d) : d[i].type = "index" /\ SameName(d[i].name, a.tbl)}))
        \* A pragma describes a view as it describes a table: v is the view named.
        Seen(rel, v) ==
            Of(IF ~rel.found /\ v # 0
               THEN [found |-> TRUE, at |-> 0, cols |-> d[v].cols, rows |-> <<>>]
               ELSE rel)
    IN Seen(Resolve(d, a.tbl),
            First({i \in 1..Len(d) : d[i].type = "view" /\ SameName(d[i].name, a.tbl)}))

EvalCreate(d, a, sql) ==
    LET Fresh(dup) ==
            IF StartsWith(Lower(a.tbl), "sqlite_")
            THEN Fail(d, "prepare", "object name reserved for internal use: " \o a.tbl)
            ELSE IF \E i \in 1..Len(d) : SameName(d[i].name, a.tbl)
                 THEN Fail(d, "prepare", "table " \o a.traw \o " already exists")
            ELSE IF dup # {}
                 THEN Fail(d, "prepare", "duplicate column name: "
                            \o a.cols[First(dup)].name)
            ELSE [Res0 EXCEPT !.db = Append(d, Entry("table", a.tbl, a.tbl, sql, a.cols, <<>>))]
    IN Fresh({i \in 1..Len(a.cols) :
                 \E j \in 1..(i - 1) : SameName(a.cols[j].name, a.cols[i].name)})

EvalInsert(d, a, params) ==
    LET Given(i) == IF a.vals[i].t = "par" THEN params[ToNat(a.vals[i].v)] ELSE a.vals[i]
        \* rel is the table, missing the columns named that it has not, pos
        \* the position among the values of each of its columns, or 0.
        Into(rel, missing, pos) ==
            IF ~rel.found \/ rel.at = 0 THEN Fail(d, "prepare", "no such table: " \o a.tbl)
            ELSE IF missing # {}
                 THEN Fail(d, "prepare", "table " \o d[rel.at].name \o " has no column named "
                            \o a.cols[First(missing)])
            ELSE IF a.proj = "named" /\ Len(a.vals) # Len(a.cols)
                 THEN Fail(d, "prepare", NatStr(Len(a.vals)) \o " values for "
                            \o NatStr(Len(a.cols)) \o " columns")
            ELSE IF a.proj = "all" /\ Len(a.vals) # Len(rel.cols)
                 THEN Fail(d, "prepare", "table " \o d[rel.at].name \o " has "
                            \o NatStr(Len(rel.cols)) \o " columns but " \o NatStr(Len(a.vals))
                            \o " values were supplied")
            ELSE IF a.npar # Len(params)
                 THEN Fail(d, "bind", "Incorrect number of bindings supplied.")
            ELSE [Res0 EXCEPT
                    !.rowcount = 1,
                    !.db = [d EXCEPT ![rel.at].rows =
                               Append(@, [j \in 1..Len(rel.cols) |->
                                             IF a.proj = "default" \/ pos[j] = 0 THEN Null
                                             ELSE Affinity(rel.cols[j].type, Given(pos[j]))])]]
        Of(rel) ==
            Into(rel,
                 {i \in 1..Len(a.cols) : ColIndex(rel.cols, a.cols[i]) = 0},
                 List([j \in 1..Len(rel.cols) |->
                          IF a.proj = "all" THEN j
                          ELSE First({i \in 1..Len(a.cols) :
                                         SameName(a.cols[i], rel.cols[j].name)})]))
    IN Of(Resolve(d, a.tbl))

EvalDeleteDrop(d, a) ==
    LET Of(rel) ==
            LET Stays(e) == ~(e.tbl_name = d[rel.at].name) IN
            IF ~rel.found \/ rel.at = 0 THEN Fail(d, "prepare", "no such table: " \o a.tbl)
            ELSE IF a.k = "delete"
                 THEN [Res0 EXCEPT !.rowcount = Len(rel.rows),
                                   !.db = [d EXCEPT ![rel.at].rows = <<>>]]
            ELSE [Res0 EXCEPT !.db = SelectSeq(d, Stays)]
    IN Of(Resolve(d, a.tbl))

\* What the engine does with a statement that is not an EXPLAIN.
EvalPlain(d, a, sql, params) ==
    CASE a.k = "error" -> Fail(d, "prepare", a.msg)
      [] a.k = "empty" -> [Res0 EXCEPT !.db = d]
      [] a.k = "select" -> EvalSelect(d, a, params)
      [] a.k = "pragma" -> EvalPragma(d, a)
      [] a.k = "create" -> EvalCreate(d, a, sql)
      [] a.k = "insert" -> EvalInsert(d, a, params)
      [] a.k \in {"delete", "drop"} -> EvalDeleteDrop(d, a)

\* What the engine does with statement a (the parse of sql) on database d:
\* [err, phase, cols, rows, rowcount, desc, db].  EXPLAIN prepares its
\* statement, so it fails as the statement would, and changes nothing.
Eval(d, a, sql, params) ==
    LET Explained(r) ==
            IF a.k # "explain" \/ r.err # "" THEN r
            ELSE [Res0 EXCEPT !.desc = TRUE, !.db = d, !.cols = <<"detail">>,
                              !.rows = IF a.inner = "select" THEN <<<<TextV("SCAN")>>>>
                                       ELSE <<>>]
    IN Explained(EvalPlain(d, IF a.k = "explain" THEN [a EXCEPT !.k = a.inner] ELSE a,
                           sql, params))

----------------------------------------------------------------------------
(* Python's sqlite3 connection over the engine.  work is the database as   *)
(* the connection sees it, disk the committed one; outside a transaction   *)
(* every statement is committed as it runs.                                *)

\* Another process that has the database file open: at = k > 0, it commits
\* act on table tbl after statement k - 1 of the request and before
\* statement k; act "reserved" or "exclusive", it holds that lock on the
\* file while the request runs.
NoOther == [at |-> 0, act |-> "none", tbl |-> ""]

NoConn ==
    [opened |-> FALSE, work |-> <<>>, disk |-> <<>>, inTxn |-> FALSE, log |-> <<>>,
     commits |-> 0, rollbacks |-> 0, other |-> NoOther]

\* A connection that shows the database as the request before left it.
remembered_connection(d) ==
    [NoConn EXCEPT !.opened = TRUE, !.work = dbBefore, !.disk = dbBefore, !.other = other]

\* sqlite3.connect(db_path), reached through get_db_connection: the file is
\* the one the other processes have open.
get_db_connection(d) ==
    [NoConn EXCEPT !.opened = TRUE, !.work = d, !.disk = d, !.other = other]

\* The database after another process committed act on table tbl: a row of
\* NULLs added, or the table dropped with what stands on it.
Committed(d, act, tbl) ==
    LET Stays(e) == e.tbl_name # tbl
        Grown(e) == IF e.type = "table" /\ e.name = tbl
                    THEN [e EXCEPT !.rows = Append(@, [k \in 1..Len(e.cols) |-> Null])]
                    ELSE e
    IN CASE act = "drop" -> SelectSeq(d, Stays)
         [] act = "insert" -> List([i \in 1..Len(d) |-> Grown(d[i])])
         [] OTHER -> d

\* The connection as it finds the file when it runs its next statement: what
\* the other process committed since the statement before is there, unless
\* the connection's own transaction keeps the other one from writing.
Meddled(c) ==
    IF c.other.at = Len(c.log) + 1 /\ ~c.inTxn
    THEN [c EXCEPT !.work = Committed(c.work, c.other.act, c.other.tbl),
                   !.disk = Committed(c.disk, c.other.act, c.other.tbl)]
    ELSE c

\* The statement a needs a lock the other process keeps it from taking: one
\* that reads the file under an exclusive lock, one that writes under a
\* reserved lock.  The engine waits for the connection's timeout and then
\* gives up.
Busy(c, a) ==
    \/ /\ c.other.act = "exclusive"
       /\ a.k \notin {"error", "empty"}
       /\ ~(a.k = "select" /\ a.tbl = "")
    \/ c.other.act = "reserved" /\ a.k \in {"insert", "delete", "drop", "create"}

\* The statements before which sqlite3 opens a transaction, told by the
\* first token t holds.
IsDml(t) ==
    Len(t) > 0 /\ t[1].k = "id" /\ t[1].u \in {"INSERT", "UPDATE", "DELETE", "REPLACE"}

\* The statement a evaluated under the other process's locks: under an
\* exclusive lock the schema cannot be read and the statement is not
\* prepared; under a reserved lock a prepared and bound statement cannot
\* take its own lock.
Stepped(c, a, sql, params) ==
    LET Held(r) ==
            IF Busy(c, a) /\ c.other.act = "exclusive"
            THEN Fail(c.work, "prepare", "database is locked")
            ELSE IF Busy(c, a) /\ r.err = ""
                 THEN Fail(c.work, "step", "database is locked")
            ELSE r
    IN Held(Eval(c.work, a, sql, params))

\* The statement run on the file as the connection finds it.
CursorRun(c, sql, params) ==
    LET Ran(t, r) ==
            LET inTxn == c.inTxn \/ (IsDml(t) /\ r.phase # "prepare")
                work == IF r.err = "" THEN r.db ELSE c.work
            IN [c |-> [c EXCEPT !.inTxn = inTxn, !.work = work,
                                !.disk = IF inTxn THEN c.disk ELSE work,
                                !.log = Append(c.log, [sql |-> sql, params |-> params])],
                err |-> r.err, cols |-> r.cols, rows |-> r.rows, rowcount |-> r.rowcount,
                desc |-> r.desc]
        Prepared(t) == Ran(t, Stepped(c, ParseTokens(t), sql, params))
    IN Prepared(Tokenize(sql))

\* cursor.execute(sql, params): [c, err, cols, rows, rowcount, desc].  A
\* statement the engine cannot prepare fails before the transaction opens.
CursorExecute(c, sql, params) == CursorRun(Meddled(c), sql, params)

RECURSIVE Call(_, _)
\* A cursor.execute that submits the statement again when the engine
\* answers that the database is locked.
ExecuteRetried(c, sql, params) ==
    LET Again(e) == IF e.err = "database is locked"
                    THEN Call("cursor.execute", <<e.c, sql, params>>)
                    ELSE e
    IN Again(Call("cursor.execute", <<c, sql, params>>))

\* A call the server makes by name: a tool the request names, or, from a
\* tool, cursor.execute.
Execute(c, sql, params) == Call("cursor.execute", <<c, sql, params>>)

\* conn.commit()
Commit(c) == [c EXCEPT !.commits = @ + 1, !.disk = c.work, !.inTxn = FALSE]

\* conn.rollback()
Rollback(c) == [c EXCEPT !.rollbacks = @ + 1, !.work = c.disk, !.inTxn = FALSE]

\* A scope that leaves a block that ended well without committing.
QuietExit(c, raised) == IF raised THEN Rollback(c) ELSE c

\* Connection.__exit__: commit when the block ended without an exception,
\* roll back when it raised.  It does not close the connection.
ExitScope(c, raised) == IF raised THEN Rollback(c) ELSE Commit(c)

\* What a handler read of an import file: whether it opened it, and the
\* rows it took from it.
NoRead == [opened |-> FALSE, rows |-> 0]

\* What a handler wrote to a file: the path, the format, the table it
\* exported and the data it handed to csv.writer or json.dump.
NoWrite == [path |-> "", format |-> "", table |-> "", data |-> <<>>]

\* What a handler hands back: the record it returns, its connection, what
\* it read of a source file and what it wrote to a file.
Returned(c, res) == [result |-> res, c |-> ExitScope(c, FALSE), src |-> NoRead, out |-> NoWrite]

Raised(c, res) == [result |-> res, c |-> ExitScope(c, TRUE), src |-> NoRead, out |-> NoWrite]

\* An argument that is no str where the source expects one: None.
None == "<None>"

\* format.lower() on a value that is no str, outside any try block: the
\* exception leaves the handler and no record is returned.
Escapes(what) ==
    [result |-> [status |-> "exception", exception |-> what], c |-> NoConn, src |-> NoRead,
     out |-> NoWrite]

NoLower == "AttributeError: 'NoneType' object has no attribute 'lower'"

\* A refusal that comes after the connection was opened.
RefusedConnected(res) ==
    [result |-> res, c |-> ExitScope(get_db_connection(db), FALSE), src |-> NoRead,
     out |-> NoWrite]

Refused(res) == [result |-> res, c |-> NoConn, src |-> NoRead, out |-> NoWrite]

\* A handler's outcome with the file it wrote
WithFile(h, path, format, table, data) ==
    [h EXCEPT !.out = [path |-> path, format |-> format, table |-> table, data |-> data]]

\* row[0] for row in rows, as text
FirstOf(rows) == [i \in 1..Len(rows) |-> rows[i][1].v]

\* dict(zip(names, row)): the pairs in order
Zip(names, row) ==
    [i \in 1..(IF Len(names) < Len(row) THEN Len(names) ELSE Len(row)) |-> <<names[i], row[i]>>]

Dicts(names, rows) == [i \in 1..Len(rows) |-> Zip(names, rows[i])]

NoPath == [status |-> "error", message |-> "Database path must be provided"]

BadName == [status |-> "error", message |-> "Invalid table_name provided."]

\* The two except clauses most handlers end with.
DbError(msg, db_path) == [status |-> "error", message |-> msg, db_path |-> db_path]

----------------------------------------------------------------------------
(* The statements the handlers build. *)

ListTablesSql == "SELECT name FROM sqlite_master WHERE type='table';"

\* The lookup as it would be with a pattern match in place of equality.
TableLikeSql == "SELECT name FROM sqlite_master WHERE type='table' AND name LIKE ?"

TableExistsSql == "SELECT name FROM sqlite_master WHERE type='table' AND name=?"

IndexExistsSql == "SELECT name FROM sqlite_master WHERE type='index' AND name=?"

\* f"PRAGMA table_info(`{table_name}`)"
TableInfoSql(n) == "PRAGMA table_info(" \o Backtick \o n \o Backtick \o ")"

\* f"SELECT COUNT(*) FROM `{table_name}`"
CountSql(n) == "SELECT COUNT(*) FROM " \o Backtick \o n \o Backtick

\* f"SELECT * FROM `{table_name}`"
ScanSql(n) == "SELECT * FROM " \o Backtick \o n \o Backtick

\* f"SELECT * FROM `{table_name}` LIMIT 5" and the like
SampleSql(n, k) == ScanSql(n) \o " LIMIT " \o NatStr(k)

IndexListSql(n) == "PRAGMA index_list(" \o Backtick \o n \o Backtick \o ")"

IndexInfoSql(n) == "PRAGMA index_info(" \o Backtick \o n \o Backtick \o ")"

ForeignKeysSql(n) == "PRAGMA foreign_key_list(" \o Backtick \o n \o Backtick \o ")"

NotFound(n) == "Table '" \o n \o "' not found."

----------------------------------------------------------------------------
(* The handlers.  Each is [result, c]: the record returned and the         *)
(* connection as the handler leaves it.                                    *)

list_tables(d, db_path) ==
    IF db_path = "" THEN Refused(NoPath)
    ELSE LET e == Execute(get_db_connection(d), ListTablesSql, <<>>) IN
         IF e.err # ""
         THEN Raised(e.c, [status |-> "error", message |-> e.err,
                           suggestion |-> "Make sure the database file exists"])
         ELSE Returned(e.c, [status |-> "success", tables |-> FirstOf(e.rows),
                             db_path |-> db_path])

list_columns(d, table_name, db_path) ==
    IF table_name = "" THEN Refused(BadName)
    ELSE IF db_path = "" THEN Refused(NoPath)
    ELSE LET e1 == Execute(get_db_connection(d), TableExistsSql, <<TextV(table_name)>>)
             e2 == Execute(e1.c, TableInfoSql(table_name), <<>>)
             Fault(c, msg) ==
                 Raised(c, IF Contains(Lower(msg), "no such table")
                           THEN [status |-> "error",
                                 message |-> "Table '" \o table_name
                                             \o "' not found or error accessing it."]
                           ELSE DbError(msg, db_path))
         IN IF e1.err # "" THEN Fault(e1.c, e1.err)
            ELSE IF Len(e1.rows) = 0
                 THEN Returned(e1.c, [status |-> "error", message |-> NotFound(table_name)])
            ELSE IF e2.err # "" THEN Fault(e2.c, e2.err)
            ELSE Returned(e2.c, [status |-> "success", columns |-> Dicts(e2.cols, e2.rows),
                                 db_path |-> db_path])

\* The generic handler's record: except Exception as e
Unexpected(what, db_path) ==
    [status |-> "error", message |-> "An unexpected error occurred: " \o what,
     db_path |-> db_path]

\* str(value) as csv.writer writes a field: None as the empty string
CsvText(val) == val.v

\* The rows written without the line of column names.
CsvRowsOnly(columns, rows) == [i \in 1..Len(rows) |-> [k \in 1..Len(rows[i]) |-> CsvText(rows[i][k])]]

\* The text csv.writer produces, kept as the rows csv.reader reads back from
\* it: the header, then each row's fields as text.
CsvRows(columns, rows) == <<columns>> \o [i \in 1..Len(rows) |-> [k \in 1..Len(rows[i]) |-> CsvText(rows[i][k])]]

\* A limit argument is [t, n]: t is "none" (None), "int" or "other" (any
\* value that is no int); n is the number when t is "int".
NoLimit == [t |-> "none", n |-> 0]

\* The clause as it would be for every int, zero and below included.
AnyLimitClause(limit) == IF limit.t = "int" THEN " LIMIT " \o IntStr(limit.n) ELSE ""

\* if limit is not None and isinstance(limit, int) and limit > 0
LimitClause(limit) ==
    IF limit.t = "int" /\ limit.n > 0 THEN " LIMIT " \o IntStr(limit.n) ELSE ""

export_data(d, table_name, db_path, format, output_path, limit) ==
    IF table_name = "" THEN Refused(BadName)
    ELSE IF db_path = "" THEN Refused(NoPath)
    ELSE IF format = None THEN Escapes(NoLower)
    ELSE IF Lower(format) \notin {"csv", "json"}
         THEN Refused([status |-> "error",
                       message |-> "Unsupported export format: " \o format
                                   \o ". Supported formats: csv, json"])
    ELSE LET e1 == Execute(get_db_connection(d), TableExistsSql, <<TextV(table_name)>>)
             query == ScanSql(table_name) \o LimitClause(limit)
             e2 == Execute(e1.c, query, <<>>)
             data == IF Lower(format) = "json" THEN Dicts(e2.cols, e2.rows)
                     ELSE CsvRows(e2.cols, e2.rows)
         IN IF e1.err # "" THEN Raised(e1.c, DbError(e1.err, db_path))
            ELSE IF Len(e1.rows) = 0
                 THEN Returned(e1.c, [status |-> "error", message |-> NotFound(table_name)])
            ELSE IF e2.err # "" THEN Raised(e2.c, DbError(e2.err, db_path))
            ELSE IF output_path # ""
                 THEN WithFile(Returned(e2.c, [status |-> "success",
                                               message |-> "Data exported successfully to "
                                                           \o output_path,
                                               row_count |-> Len(e2.rows), db_path |-> db_path]),
                               output_path, Lower(format), table_name, data)
            ELSE Returned(e2.c, [status |-> "success", data |-> data,
                                 row_count |-> Len(e2.rows), db_path |-> db_path])

StatSql(col) == "SELECT * FROM sqlite_stat1 WHERE " \o col \o "=?"

RECURSIVE IndexDetails(_, _, _, _)
\* The loop over the indexes of get_table_info and list_indexes: for each
\* name a lookup in the catalog and, when it is there, PRAGMA index_info;
\* withStats adds list_indexes' guarded read of sqlite_stat1.
\* [c, err, out]: err is the engine's message when a statement raised.
IndexDetails(c, names, withStats, acc) ==
    IF Len(names) = 0 THEN [c |-> c, err |-> "", out |-> acc]
    ELSE LET e1 == Execute(c, IndexExistsSql, <<TextV(names[1])>>)
             e2 == Execute(e1.c, IndexInfoSql(names[1]), <<>>)
             found == e1.err = "" /\ Len(e1.rows) > 0
             c2 == IF found THEN e2.c ELSE e1.c
             c3 == IF withStats THEN Execute(c2, StatSql("idx"), <<TextV(names[1])>>).c ELSE c2
             one == [name |-> names[1],
                     columns |-> IF found THEN Dicts(e2.cols, e2.rows) ELSE <<>>]
         IN IF e1.err # "" THEN [c |-> e1.c, err |-> e1.err, out |-> acc]
            ELSE IF found /\ e2.err # "" THEN [c |-> e2.c, err |-> e2.err, out |-> acc]
            ELSE IF withStats \/ found
                 THEN IndexDetails(c3, Tail(names), withStats, Append(acc, one))
            ELSE IndexDetails(c3, Tail(names), withStats, acc)

\* The text of column i of each row
ColumnOf(rows, i) == [k \in 1..Len(rows) |-> rows[k][i].v]

get_table_info(d, table_name, db_path) ==
    IF table_name = "" THEN Refused(BadName)
    ELSE IF db_path = "" THEN Refused(NoPath)
    ELSE LET e1 == Execute(get_db_connection(d), TableExistsSql, <<TextV(table_name)>>)
             e2 == Execute(e1.c, CountSql(table_name), <<>>)
             e3 == Execute(e2.c, TableInfoSql(table_name), <<>>)
             e4 == Execute(e3.c, IndexListSql(table_name), <<>>)
             ix == IndexDetails(e4.c, ColumnOf(e4.rows, 2), FALSE, <<>>)
             e5 == Execute(ix.c, StatSql("tbl"), <<TextV(table_name)>>)
             e6 == Execute(e5.c, SampleSql(table_name, 5), <<>>)
         IN IF e1.err # "" THEN Raised(e1.c, DbError(e1.err, db_path))
            ELSE IF Len(e1.rows) = 0
                 THEN Returned(e1.c, [status |-> "error", message |-> NotFound(table_name)])
            ELSE IF e2.err # "" THEN Raised(e2.c, DbError(e2.err, db_path))
            ELSE IF e3.err # "" THEN Raised(e3.c, DbError(e3.err, db_path))
            ELSE IF e4.err # "" THEN Raised(e4.c, DbError(e4.err, db_path))
            ELSE IF ix.err # "" THEN Raised(ix.c, DbError(ix.err, db_path))
            ELSE IF e6.err # "" THEN Raised(e6.c, DbError(e6.err, db_path))
            ELSE Returned(e6.c,
                    [status |-> "success", table_name |-> table_name,
                     row_count |-> e2.rows[1][1], columns |-> Dicts(e3.cols, e3.rows),
                     indexes |-> ix.out,
                     stats |-> IF e5.err = "" /\ Len(e5.rows) > 0
                               THEN Dicts(e5.cols, e5.rows) ELSE <<>>,
                     sample_data |-> Dicts(e6.cols, e6.rows), db_path |-> db_path])

show_table(d, table_name, db_path) ==
    IF table_name = "" THEN Refused(BadName)
    ELSE IF db_path = "" THEN Refused(NoPath)
    ELSE LET e1 == Execute(get_db_connection(d), TableExistsSql, <<TextV(table_name)>>)
             e2 == Execute(e1.c, TableInfoSql(table_name), <<>>)
             e3 == Execute(e2.c, SampleSql(table_name, 5), <<>>)
             e4 == Execute(e3.c, CountSql(table_name), <<>>)
         IN IF e1.err # "" THEN Raised(e1.c, DbError(e1.err, db_path))
            ELSE IF Len(e1.rows) = 0
                 THEN Returned(e1.c, [status |-> "error", message |-> NotFound(table_name)])
            ELSE IF e2.err # "" THEN Raised(e2.c, DbError(e2.err, db_path))
            ELSE IF e3.err # "" THEN Raised(e3.c, DbError(e3.err, db_path))
            ELSE IF e4.err # "" THEN Raised(e4.c, DbError(e4.err, db_path))
            ELSE Returned(e4.c,
                    [status |-> "success", table_name |-> table_name,
                     columns |-> Dicts(e2.cols, e2.rows),
                     sample_data |-> Dicts(e3.cols, e3.rows),
                     total_rows |-> e4.rows[1][1], db_path |-> db_path])

explain_table(d, table_name, db_path) ==
    IF table_name = ""
    THEN Refused([status |-> "error", message |-> "Please provide a table name."])
    ELSE IF db_path = "" THEN Refused(NoPath)
    ELSE LET e1 == Execute(get_db_connection(d), TableExistsSql, <<TextV(table_name)>>)
             l == Execute(e1.c, ListTablesSql, <<>>)
             e2 == Execute(e1.c, TableInfoSql(table_name), <<>>)
             e3 == Execute(e2.c, CountSql(table_name), <<>>)
             e4 == Execute(e3.c, SampleSql(table_name, 3), <<>>)
             e5 == Execute(e4.c, ForeignKeysSql(table_name), <<>>)
             Fault(c, msg) == Raised(c, DbError(msg, db_path))
         IN IF e1.err # "" THEN Fault(e1.c, e1.err)
            ELSE IF Len(e1.rows) = 0
                 THEN IF l.err # "" THEN Fault(l.c, l.err)
                      ELSE IF Len(l.rows) = 0
                           THEN Raised(l.c, Unexpected("list index out of range", db_path))
                      ELSE Returned(l.c,
                              [status |-> "error", message |-> NotFound(table_name),
                               available_tables |-> FirstOf(l.rows),
                               suggestion |-> "Try: explain_table(\"" \o FirstOf(l.rows)[1]
                                              \o "\", \"" \o db_path
                                              \o "\") if you want to explore the first table."])
            ELSE IF e2.err # "" THEN Fault(e2.c, e2.err)
            ELSE IF e3.err # "" THEN Fault(e3.c, e3.err)
            ELSE IF e4.err # "" THEN Fault(e4.c, e4.err)
            ELSE IF e5.err # "" THEN Fault(e5.c, e5.err)
            ELSE Returned(e5.c,
                    [status |-> "success", table_name |-> table_name,
                     row_count |-> e3.rows[1][1], column_count |-> Len(e2.rows),
                     db_path |-> db_path])

\* "SELECT * FROM sqlite_master WHERE type='index'" and its variants
MasterSql(type, byTable) ==
    "SELECT * FROM sqlite_master WHERE type='" \o type \o "'"
    \o (IF byTable THEN " AND tbl_name=?" ELSE "")

\* f"No indexes found{' for table ' + table_name if table_name else ''}."
NoneFound(what, table_name) ==
    "No " \o what \o " found"
    \o (IF table_name # "" THEN " for table " \o table_name ELSE "") \o "."

list_indexes(d, db_path, table_name) ==
    IF db_path = "" THEN Refused(NoPath)
    ELSE LET c0 == get_db_connection(d)
             e1 == Execute(c0, TableExistsSql, <<TextV(table_name)>>)
             c1 == IF table_name # "" THEN e1.c ELSE c0
             e2 == IF table_name # ""
                   THEN Execute(c1, MasterSql("index", TRUE), <<TextV(table_name)>>)
                   ELSE Execute(c1, MasterSql("index", FALSE), <<>>)
             ix == IndexDetails(e2.c, ColumnOf(e2.rows, 2), TRUE, <<>>)
         IN IF table_name # "" /\ e1.err # "" THEN Raised(e1.c, DbError(e1.err, db_path))
            ELSE IF table_name # "" /\ Len(e1.rows) = 0
                 THEN Returned(e1.c, [status |-> "error", message |-> NotFound(table_name),
                                      db_path |-> db_path])
            ELSE IF e2.err # "" THEN Raised(e2.c, DbError(e2.err, db_path))
            ELSE IF Len(e2.rows) = 0
                 THEN Returned(e2.c, [status |-> "success",
                                      message |-> NoneFound("indexes", table_name),
                                      indexes |-> <<>>, db_path |-> db_path])
            ELSE IF ix.err # "" THEN Raised(ix.c, DbError(ix.err, db_path))
            ELSE Returned(ix.c, [status |-> "success", indexes |-> ix.out,
                                 count |-> Len(ix.out), db_path |-> db_path])

\* The first of the words that the trigger's text holds, None when none
FirstWordIn(sql, words) ==
    LET hits == SelectSeq(words, LAMBDA w : Contains(Upper(sql), w))
    IN IF Len(hits) = 0 THEN "None" ELSE hits[1]

\* formatted_trigger of one row of sqlite_master
FormatTrigger(row) ==
    [name |-> row[2].v, table |-> row[3].v, sql |-> row[5].v,
     timing |-> FirstWordIn(row[5].v, <<"BEFORE", "AFTER", "INSTEAD OF">>),
     event |-> FirstWordIn(row[5].v, <<"INSERT", "UPDATE", "DELETE">>)]

list_triggers(d, db_path, table_name) ==
    IF db_path = "" THEN Refused(NoPath)
    ELSE LET c0 == get_db_connection(d)
             e1 == Execute(c0, TableExistsSql, <<TextV(table_name)>>)
             c1 == IF table_name # "" THEN e1.c ELSE c0
             e2 == IF table_name # ""
                   THEN Execute(c1, MasterSql("trigger", TRUE), <<TextV(table_name)>>)
                   ELSE Execute(c1, MasterSql("trigger", FALSE), <<>>)
         IN IF table_name # "" /\ e1.err # "" THEN Raised(e1.c, DbError(e1.err, db_path))
            ELSE IF table_name # "" /\ Len(e1.rows) = 0
                 THEN Returned(e1.c, [status |-> "error", message |-> NotFound(table_name),
                                      db_path |-> db_path])
            ELSE IF e2.err # "" THEN Raised(e2.c, DbError(e2.err, db_path))
            ELSE IF Len(e2.rows) = 0
                 THEN Returned(e2.c, [status |-> "success",
                                      message |-> NoneFound("triggers", table_name),
                                      triggers |-> <<>>, db_path |-> db_path])
            ELSE Returned(e2.c, [status |-> "success",
                                 triggers |-> [i \in 1..Len(e2.rows) |-> FormatTrigger(e2.rows[i])],
                                 count |-> Len(e2.rows), db_path |-> db_path])

\* A classification that takes WITH for a read as well.
returns_rows(sql) ==
    StartsWith(Upper(Strip(sql)), "SELECT") \/ StartsWith(Upper(Strip(sql)), "WITH")

\* sql_query.strip().upper().startswith("SELECT")
is_select(sql) == StartsWith(Upper(Strip(sql)), "SELECT")

\* The except sqlite3.Error clause of execute_sql and query_database
QueryError(msg, db_path) ==
    IF Contains(Lower(msg), "no such table")
    THEN [status |-> "error",
          message |-> "Table not found. Use 'list_tables' tool first to see available tables. Error: "
                      \o msg,
          db_path |-> db_path,
          suggestion |-> "Try using list_tables tool to see what tables are available"]
    ELSE DbError(msg, db_path)

\* parameters is the sequence of values to bind, empty when none is given
execute_sql(d, sql_query, db_path, parameters) ==
    IF sql_query = ""
    THEN Refused([status |-> "error", message |-> "Invalid sql_query provided."])
    ELSE IF db_path = "" THEN Refused(NoPath)
    ELSE LET e == Execute(get_db_connection(d), sql_query, parameters)
             c2 == Commit(e.c)
         IN IF e.err # "" THEN Raised(e.c, QueryError(e.err, db_path))
            ELSE IF is_select(sql_query)
                 THEN Returned(e.c, [status |-> "success", columns |-> IF e.desc THEN e.cols ELSE <<>>,
                                     rows |-> e.rows, db_path |-> db_path])
            ELSE IF e.rowcount # -1
                 THEN Returned(c2, [status |-> "success", rows_affected |-> e.rowcount,
                                    db_path |-> db_path])
            ELSE Returned(c2, [status |-> "success",
                               message |-> "Query executed successfully (DDL or statement with no row count).",
                               db_path |-> db_path])

query_database(d, sql, db_path) ==
    IF sql = "" THEN Refused([status |-> "error", message |-> "Invalid sql provided."])
    ELSE IF db_path = "" THEN Refused(NoPath)
    ELSE LET e == Execute(get_db_connection(d), sql, <<>>)
             c2 == Commit(e.c)
         IN IF e.err # "" THEN Raised(e.c, QueryError(e.err, db_path))
            ELSE IF is_select(sql)
                 THEN Returned(e.c, [status |-> "success", columns |-> IF e.desc THEN e.cols ELSE <<>>,
                                     rows |-> e.rows, db_path |-> db_path])
            ELSE Returned(c2, [status |-> "success", rows_affected |-> e.rowcount,
                               db_path |-> db_path])

-----------------------------------------------------------------------------
(* import_data.  A source file is [json, csv]: what json.load makes of it *)
(* ([ok, msg, list, items], an item being an object as its <<key, value>> *)
(* pairs in order) and the rows csv.reader yields from it.                *)

\* What a handler has taken from its source file.
DQ(n) == "\"" \o n \o "\""

\* f"\"{col}\" TEXT" for each column
ColumnDefs(columns) == List([i \in 1..Len(columns) |-> DQ(columns[i]) \o " TEXT"])

\* f"CREATE TABLE \"{table_name}\" ({', '.join(column_defs)})"
CreateTableSql(table_name, columns) ==
    "CREATE TABLE " \o DQ(table_name) \o " (" \o Join(ColumnDefs(columns), ", ") \o ")"

\* f"INSERT INTO \"{table_name}\" ({', '.join(quoted)}) VALUES ({', '.join(placeholders)})"
InsertSql(table_name, columns) ==
    "INSERT INTO " \o DQ(table_name) \o " (" \o Join(List([i \in 1..Len(columns) |-> DQ(columns[i])]), ", ")
    \o ") VALUES (" \o Join(List([i \in 1..Len(columns) |-> "?"]), ", ") \o ")"

\* list(row_data.keys())
Keys(obj) == [i \in 1..Len(obj) |-> obj[i][1]]

\* {k: v for k, v in row_data.items() if k in existing_columns}
Reconciled(obj, existing_columns) ==
    SelectSeq(obj, LAMBDA kv : InSeq(kv[1], existing_columns))

\* [i for i, col in enumerate(headers) if col in existing_columns]
ValidIndices(headers, existing_columns) ==
    SelectSeq([i \in 1..Len(headers) |-> i], LAMBDA i : InSeq(headers[i], existing_columns))

RECURSIVE InsertObjects(_, _, _, _, _)
\* for row_data in data: [c, err, n], n the rows inserted
InsertObjects(c, table_name, data, existing_columns, acc) ==
    IF Len(data) = 0 THEN [c |-> c, err |-> "", n |-> acc]
    ELSE LET filtered_data == Reconciled(data[1], existing_columns)
             e == Execute(c, InsertSql(table_name, Keys(filtered_data)),
                          [i \in 1..Len(filtered_data) |-> filtered_data[i][2]])
         IN IF Len(filtered_data) = 0
            THEN InsertObjects(c, table_name, Tail(data), existing_columns, acc)
            ELSE IF e.err # "" THEN [c |-> e.c, err |-> e.err, n |-> acc]
            ELSE InsertObjects(e.c, table_name, Tail(data), existing_columns, acc + 1)

RECURSIVE InsertRows(_, _, _, _, _, _)
\* for row in csv_reader: [c, err, kind, n, seen]; kind tells an engine
\* error from an IndexError, seen counts the rows taken from the reader
InsertRows(c, insert_sql, rows, valid_indices, acc, seen) ==
    IF Len(rows) = 0 THEN [c |-> c, err |-> "", kind |-> "", n |-> acc, seen |-> seen]
    ELSE LET row == rows[1]
             short == \E k \in 1..Len(valid_indices) : valid_indices[k] > Len(row)
             e == Execute(c, insert_sql, [k \in 1..Len(valid_indices) |-> TextV(row[valid_indices[k]])])
         IN IF Len(row) = 0
            THEN InsertRows(c, insert_sql, Tail(rows), valid_indices, acc, seen + 1)
            ELSE IF short
                 THEN [c |-> c, err |-> "list index out of range", kind |-> "index",
                       n |-> acc, seen |-> seen + 1]
            ELSE IF e.err # ""
                 THEN [c |-> e.c, err |-> e.err, kind |-> "engine", n |-> acc, seen |-> seen + 1]
            ELSE InsertRows(e.c, insert_sql, Tail(rows), valid_indices, acc + 1, seen + 1)

\* A record that counts the line of field names with the rows.
ImportedWithHeader(n, table_name, db_path) ==
    [status |-> "success",
     message |-> "Successfully imported " \o NatStr(n + 1) \o " rows into table '"
                 \o table_name \o "'",
     rows_imported |-> n + 1, db_path |-> db_path]

\* The record of a finished import
Imported(n, table_name, db_path) ==
    [status |-> "success",
     message |-> "Successfully imported " \o NatStr(n) \o " rows into table '"
                 \o table_name \o "'",
     rows_imported |-> n, db_path |-> db_path]

\* A handler's outcome with what it took from the source
WithSrc(h, opened, rows) ==
    [result |-> h.result, c |-> h.c, src |-> [opened |-> opened, rows |-> rows], out |-> h.out]

\* The JSON branch, entered with the connection as the lookup left it
ImportJson(c, table_name, db_path, file, table_exists, create_table) ==
    LET data == file.json
        create == Execute(c, CreateTableSql(table_name, Keys(data.items[1])), <<>>)
        c1 == IF ~table_exists /\ create_table THEN create.c ELSE c
        info == Execute(c1, TableInfoSql(table_name), <<>>)
        existing_columns == ColumnOf(info.rows, 2)
        loop == InsertObjects(info.c, table_name, data.items, existing_columns, 0)
    IN IF ~data.ok THEN WithSrc(Raised(c, Unexpected(data.msg, db_path)), TRUE, 0)
       ELSE IF ~data.list \/ Len(data.items) = 0
            THEN WithSrc(Returned(c, [status |-> "error",
                                      message |-> "JSON file must contain a list of objects"]),
                         TRUE, Len(data.items))
       ELSE IF ~table_exists /\ create_table /\ create.err # ""
            THEN WithSrc(Raised(create.c, DbError(create.err, db_path)), TRUE, Len(data.items))
       ELSE IF info.err # ""
            THEN WithSrc(Raised(info.c, DbError(info.err, db_path)), TRUE, Len(data.items))
       ELSE IF loop.err # ""
            THEN WithSrc(Raised(loop.c, DbError(loop.err, db_path)), TRUE, Len(data.items))
       ELSE WithSrc(Returned(Commit(loop.c), Imported(loop.n, table_name, db_path)),
                    TRUE, Len(data.items))

\* The CSV branch
ImportCsv(c, table_name, db_path, file, table_exists, create_table) ==
    LET headers == file.csv[1]
        create == Execute(c, CreateTableSql(table_name, headers), <<>>)
        c1 == IF ~table_exists /\ create_table THEN create.c ELSE c
        info == Execute(c1, TableInfoSql(table_name), <<>>)
        existing_columns == ColumnOf(info.rows, 2)
        valid_indices == ValidIndices(headers, existing_columns)
        valid_headers == [k \in 1..Len(valid_indices) |-> headers[valid_indices[k]]]
        loop == InsertRows(info.c, InsertSql(table_name, valid_headers), Tail(file.csv),
                           valid_indices, 0, 0)
    IN IF Len(file.csv) = 0 THEN WithSrc(Raised(c, Unexpected("", db_path)), TRUE, 0)
       ELSE IF ~table_exists /\ create_table /\ create.err # ""
            THEN WithSrc(Raised(create.c, DbError(create.err, db_path)), TRUE, 1)
       ELSE IF info.err # "" THEN WithSrc(Raised(info.c, DbError(info.err, db_path)), TRUE, 1)
       ELSE IF Len(valid_headers) = 0
            THEN WithSrc(Returned(info.c,
                            [status |-> "error",
                             message |-> "No matching columns found between the CSV and the table"]),
                         TRUE, 1)
       ELSE IF loop.kind = "index"
            THEN WithSrc(Raised(loop.c, Unexpected(loop.err, db_path)), TRUE, 1 + loop.seen)
       ELSE IF loop.err # ""
            THEN WithSrc(Raised(loop.c, DbError(loop.err, db_path)), TRUE, 1 + loop.seen)
       ELSE WithSrc(Returned(Commit(loop.c), Imported(loop.n, table_name, db_path)),
                    TRUE, 1 + loop.seen)

\* An import that goes to the source whatever the lookup found.
import_unchecked(d, table_name, db_path, file_path, file, format, create_table) ==
    LET e1 == Execute(get_db_connection(d), TableExistsSql, <<TextV(table_name)>>) IN
    IF Lower(format) = "json"
    THEN ImportJson(e1.c, table_name, db_path, file, Len(e1.rows) > 0, create_table)
    ELSE ImportCsv(e1.c, table_name, db_path, file, Len(e1.rows) > 0, create_table)

\* file is what file_path names: [exists, json, csv]
import_data(d, table_name, db_path, file_path, file, format, create_table) ==
    IF table_name = "" THEN WithSrc(Refused(BadName), FALSE, 0)
    ELSE IF db_path = "" THEN WithSrc(Refused(NoPath), FALSE, 0)
    ELSE IF file_path = "" \/ ~file.exists
         THEN WithSrc(Refused([status |-> "error", message |-> "File not found: " \o file_path]),
                      FALSE, 0)
    ELSE IF format = None THEN WithSrc(Escapes(NoLower), FALSE, 0)
    ELSE IF Lower(format) \notin {"csv", "json"}
         THEN WithSrc(Refused([status |-> "error",
                               message |-> "Unsupported import format: " \o format
                                           \o ". Supported formats: csv, json"]),
                      FALSE, 0)
    ELSE LET e1 == Execute(get_db_connection(d), TableExistsSql, <<TextV(table_name)>>)
             table_exists == Len(e1.rows) > 0
         IN IF e1.err # "" THEN WithSrc(Raised(e1.c, DbError(e1.err, db_path)), FALSE, 0)
            ELSE IF ~table_exists /\ ~create_table
                 THEN WithSrc(Returned(e1.c,
                                 [status |-> "error",
                                  message |-> "Table '" \o table_name
                                      \o "' does not exist. Set create_table=True to create it."]),
                              FALSE, 0)
            ELSE IF Lower(format) = "json"
                 THEN ImportJson(e1.c, table_name, db_path, file, table_exists, create_table)
            ELSE ImportCsv(e1.c, table_name, db_path, file, table_exists, create_table)

get_query_plan(d, sql_query, db_path) ==
    IF db_path = "" THEN Refused(NoPath)
    ELSE IF sql_query = ""
         THEN Refused([status |-> "error", message |-> "Invalid sql_query provided."])
    ELSE LET c0 == get_db_connection(d)
             e1 == Execute(c0, "EXPLAIN QUERY PLAN " \o sql_query, <<>>)
             e2 == Execute(e1.c, "EXPLAIN " \o sql_query, <<>>)
             e3 == Execute(e2.c, sql_query, <<>>)
         IN IF ~is_select(sql_query)
            THEN Returned(c0, [status |-> "error",
                               message |-> "Query plan is only available for SELECT statements"])
            ELSE IF e1.err # "" THEN Raised(e1.c, DbError(e1.err, db_path))
            ELSE IF Len(e1.rows) = 0
                 THEN Returned(e1.c, [status |-> "error", message |-> "No query plan generated",
                                      db_path |-> db_path])
            ELSE IF e2.err # "" THEN Raised(e2.c, DbError(e2.err, db_path))
            ELSE Returned(e3.c,
                    [status |-> "success", query |-> sql_query,
                     plan |-> Dicts(e1.cols, e1.rows), explain |-> Dicts(e2.cols, e2.rows),
                     result_columns |-> IF e3.err = "" THEN e3.cols ELSE <<>>,
                     has_results |-> e3.err = "" /\ Len(e3.rows) > 0,
                     execution_error |-> IF e3.err = "" THEN "None" ELSE e3.err,
                     db_path |-> db_path])

\* The part of the view's text after its first AS, None when it has none:
\* view_sql.upper().split("AS", 1)[1].strip()
SelectStatement(view_sql) ==
    LET AfterAs(u, at) == IF at = 0 THEN "None" ELSE Strip(From(u, at + 2))
        Within(u) == AfterAs(u, First({i \in 1..(Len(u) - 1) : SubSeq(u, i, i + 1) = "AS"}))
    IN Within(Upper(view_sql))

RECURSIVE ViewDetails(_, _, _)
\* for view in views: the view with its columns, none when the engine
\* refuses to describe it.  [c, out]
ViewDetails(c, rows, acc) ==
    IF Len(rows) = 0 THEN [c |-> c, out |-> acc]
    ELSE LET Described(e) ==
                 ViewDetails(e.c, Tail(rows),
                             Append(acc, [name |-> rows[1][2].v, sql |-> rows[1][5].v,
                                          select_statement |-> SelectStatement(rows[1][5].v),
                                          columns |-> IF e.err # "" THEN <<>>
                                                      ELSE Dicts(e.cols, e.rows)]))
         IN Described(Execute(c, TableInfoSql(rows[1][2].v), <<>>))

list_views(d, db_path) ==
    IF db_path = "" THEN Refused(NoPath)
    ELSE LET Listed(e, v) ==
                 IF e.err # "" THEN Raised(e.c, DbError(e.err, db_path))
                 ELSE IF Len(e.rows) = 0
                      THEN Returned(e.c, [status |-> "success",
                                          message |-> "No views found in the database.",
                                          views |-> <<>>, db_path |-> db_path])
                 ELSE Returned(v.c, [status |-> "success", views |-> v.out,
                                     count |-> Len(v.out), db_path |-> db_path])
             Found(e) == Listed(e, ViewDetails(e.c, e.rows, <<>>))
         IN Found(Execute(get_db_connection(d), MasterSql("view", FALSE), <<>>))

\* table_keywords: each pattern key with its keywords, in the order of the
\* dict.
table_keywords ==
    << <<"customer", <<"customer", "customers", "client", "clients">>>>,
       <<"order", <<"order", "orders", "purchase", "purchases">>>>,
       <<"product", <<"product", "products", "item", "items">>>>,
       <<"employee", <<"employee", "employees", "staff", "worker">>>>,
       <<"invoice", <<"invoice", "invoices", "bill", "bills">>>>,
       <<"track", <<"track", "tracks", "song", "songs", "music">>>>,
       <<"album", <<"album", "albums">>>>,
       <<"artist", <<"artist", "artists", "band", "bands">>>>,
       <<"genre", <<"genre", "genres", "category", "categories">>>> >>

\* The inner loop over table_keywords: some pattern key is in the table's
\* name and one of its keywords in the question.
KeywordMatch(table_lower, question_lower) ==
    \E i \in 1..Len(table_keywords) :
        /\ StartsWith(table_lower, table_keywords[i][1])
              \/ Contains(table_lower, table_keywords[i][1])
        /\ \E k \in 1..Len(table_keywords[i][2]) :
              Contains(question_lower, table_keywords[i][2][k])

\* A choice that looks at what earlier requests left behind: while a
\* connection of theirs is open the last table is taken.
remembered_table(tables, question_lower) ==
    IF conns > 0 THEN tables[Len(tables)] ELSE tables[1]

\* A choice that takes the first table whatever the question.
first_table(tables, question_lower) == tables[1]

\* The loop over the tables: the first table whose name is in the question
\* or that a keyword matches, and the first table when there is none.
relevant_table(tables, question_lower) ==
    LET Chosen(hit) == IF hit = 0 THEN tables[1] ELSE tables[hit]
    IN Chosen(First({i \in 1..Len(tables) :
                        \/ Contains(question_lower, Lower(tables[i]))
                        \/ KeywordMatch(Lower(tables[i]), question_lower)}))

\* A filter that knows the country column only.
CountryFilter(question_lower, columns) ==
    IF /\ Contains(question_lower, "germany") \/ Contains(question_lower, "german")
       /\ \E i \in 1..Len(columns) : Lower(columns[i]) = "country"
    THEN " WHERE Country = 'Germany'"
    ELSE ""

\* The filter the question's words add to the query
Filter(question_lower, columns) ==
    LET Over(lowered) ==
            IF ~(Contains(question_lower, "germany") \/ Contains(question_lower, "german"))
            THEN ""
            ELSE IF InSeq("country", lowered) THEN " WHERE Country = 'Germany'"
            ELSE IF InSeq("location", lowered) THEN " WHERE Location LIKE '%Germany%'"
            ELSE ""
    IN Over(List([i \in 1..Len(columns) |-> Lower(columns[i])]))

\* A query left without its cap.
Uncapped(query) == query

\* query += " LIMIT 50"
Capped(query) == query \o " LIMIT 50"

smart_query(d, question, db_path) ==
    IF question = ""
    THEN Refused([status |-> "error", message |-> "Please provide a question about the data."])
    ELSE IF db_path = "" THEN Refused(NoPath)
    ELSE LET Answered(tables, table, query, e2, e3) ==
                 IF e2.err # "" THEN Raised(e2.c, DbError(e2.err, db_path))
                 ELSE IF e3.err # "" THEN Raised(e3.c, DbError(e3.err, db_path))
                 ELSE Returned(e3.c,
                         [status |-> "success", question |-> question, table_used |-> table,
                          available_tables |-> tables, query_executed |-> query,
                          columns |-> e3.cols, data |-> Dicts(e3.cols, e3.rows),
                          row_count |-> Len(e3.rows),
                          explanation |-> "Found " \o NatStr(Len(e3.rows))
                                          \o " records in table '" \o table
                                          \o "' based on your question.",
                          db_path |-> db_path])
             Queried(tables, table, query, e2) ==
                 Answered(tables, table, query, e2, Execute(e2.c, query, <<>>))
             Described(tables, table, e2) ==
                 Queried(tables, table,
                         Capped(ScanSql(table) \o Filter(Lower(question), ColumnOf(e2.rows, 2))),
                         e2)
             Routed(c, tables, table) ==
                 Described(tables, table, Execute(c, TableInfoSql(table), <<>>))
             Listed(e1, tables) ==
                 IF e1.err # "" THEN Raised(e1.c, DbError(e1.err, db_path))
                 ELSE IF Len(tables) = 0
                      THEN Returned(e1.c, [status |-> "error",
                                           message |-> "No tables found in database",
                                           db_path |-> db_path])
                 ELSE Routed(e1.c, tables, relevant_table(tables, Lower(question)))
             Tables(e1) == Listed(e1, FirstOf(e1.rows))
         IN Tables(Execute(get_db_connection(d), ListTablesSql, <<>>))

\* The names of the rows of PRAGMA table_info that are primary keys
PrimaryKeys(info) ==
    LET Named(keys) == List([i \in 1..Len(keys) |-> keys[i][2].v])
    IN Named(SelectSeq(info, LAMBDA col : col[6].v # "0"))

RECURSIVE TableDetails(_, _, _, _)
\* for table_name in table_names, of discover_database (full) and of
\* get_schema_summary: [c, err, out], out holding one record a table.
TableDetails(c, names, full, acc) ==
    IF Len(names) = 0 THEN [c |-> c, err |-> "", out |-> acc]
    ELSE LET n == names[1]
             e1 == Execute(c, IF full THEN TableInfoSql(n) ELSE CountSql(n), <<>>)
             e2 == Execute(e1.c, IF full THEN CountSql(n) ELSE TableInfoSql(n), <<>>)
             e3 == Execute(e2.c, SampleSql(n, 2), <<>>)
             e4 == Execute(e3.c, ForeignKeysSql(n), <<>>)
             info == IF full THEN e1.rows ELSE e2.rows
             count == IF full THEN e2.rows[1][1] ELSE e1.rows[1][1]
             keys == PrimaryKeys(info)
             one == IF full
                    THEN [name |-> n, row_count |-> count,
                          columns |-> [i \in 1..Len(info) |->
                                          [name |-> info[i][2].v, type |-> info[i][3].v,
                                           required |-> info[i][4].v # "0",
                                           primary_key |-> info[i][6].v # "0"]],
                          primary_keys |-> keys,
                          foreign_keys |-> [i \in 1..Len(e4.rows) |->
                                               [column |-> e4.rows[i][4].v,
                                                references_table |-> e4.rows[i][3].v,
                                                references_column |-> e4.rows[i][5].v]],
                          sample_data |-> Dicts(e3.cols, e3.rows)]
                    ELSE [name |-> n, rows |-> count, columns |-> Len(info),
                          primary_key |-> IF Len(keys) = 0 THEN "None" ELSE keys[1]]
         IN IF e1.err # "" THEN [c |-> e1.c, err |-> e1.err, out |-> acc]
            ELSE IF e2.err # "" THEN [c |-> e2.c, err |-> e2.err, out |-> acc]
            ELSE IF full /\ e3.err # "" THEN [c |-> e3.c, err |-> e3.err, out |-> acc]
            ELSE IF full /\ e4.err # "" THEN [c |-> e4.c, err |-> e4.err, out |-> acc]
            ELSE TableDetails(IF full THEN e4.c ELSE e2.c, Tail(names), full, Append(acc, one))

\* The record discover_database and get_schema_summary return when the
\* catalog lists no table
NoTables(db_path) ==
    [status |-> "error", message |-> "No tables found in database", db_path |-> db_path]

\* schema is database_schema; summary is kept as the lines of its table list.
discover_database(d, db_path) ==
    IF db_path = "" THEN Refused(NoPath)
    ELSE LET e == Execute(get_db_connection(d), ListTablesSql, <<>>)
             table_names == FirstOf(e.rows)
             t == TableDetails(e.c, table_names, TRUE, <<>>)
         IN IF e.err # "" THEN Raised(e.c, DbError(e.err, db_path))
            ELSE IF Len(table_names) = 0 THEN Returned(e.c, NoTables(db_path))
            ELSE IF t.err # "" THEN Raised(t.c, DbError(t.err, db_path))
            ELSE Returned(t.c,
                    [status |-> "success",
                     schema |-> [database_path |-> db_path, total_tables |-> Len(table_names),
                                 tables |-> t.out],
                     summary |-> [i \in 1..Len(t.out) |->
                                     t.out[i].name \o ": " \o t.out[i].row_count.v \o " rows, "
                                     \o NatStr(Len(t.out[i].columns)) \o " columns"],
                     quick_start |->
                         [first_query |-> "query_database(\"SELECT * FROM " \o table_names[1]
                                          \o " LIMIT 5\", \"" \o db_path \o "\")",
                          explore_table |-> "show_table(\"" \o table_names[1] \o "\", \""
                                            \o db_path \o "\")",
                          list_all_tables |-> "list_tables(\"" \o db_path \o "\")"],
                     db_path |-> db_path])

get_schema_summary(d, db_path) ==
    IF db_path = "" THEN Refused(NoPath)
    ELSE LET e == Execute(get_db_connection(d), ListTablesSql, <<>>)
             table_names == FirstOf(e.rows)
             t == TableDetails(e.c, table_names, FALSE, <<>>)
         IN IF e.err # "" THEN Raised(e.c, DbError(e.err, db_path))
            ELSE IF Len(table_names) = 0 THEN Returned(e.c, NoTables(db_path))
            ELSE IF t.err # "" THEN Raised(t.c, DbError(t.err, db_path))
            ELSE Returned(t.c,
                    [status |-> "success",
                     summary |-> [database |-> db_path, table_count |-> Len(table_names),
                                  tables |-> t.out],
                     next_steps |->
                         <<"explain_table(\"" \o table_names[1] \o "\", \"" \o db_path
                           \o "\") - to explore the first table",
                           "query_database(\"SELECT * FROM " \o table_names[1]
                           \o " LIMIT 5\", \"" \o db_path \o "\") - to see sample data">>,
                     db_path |-> db_path])

VersionSql == "SELECT sqlite_version();"

\* os.path.exists(db_path): the file the server is pointed at is there
DbExists(db_path) == db_path = "app.db"

\* os.path.getsize of the database file
FileSize(d) == ToNat(FileFact(d, "page_size").v) * ToNat(FileFact(d, "page_count").v)

\* sqlite3.connect(db_path) in a with block of its own, without
\* get_db_connection.
create_database(d, db_path) ==
    IF db_path = ""
    THEN Refused([status |-> "error", message |-> "Invalid db_path provided."])
    ELSE LET Checked(e) ==
                 IF e.err # "" THEN Raised(e.c, DbError(e.err, db_path))
                 ELSE Returned(e.c,
                         [status |-> "success",
                          message |-> "Database created/connected successfully at "
                                      \o db_path,
                          sqlite_version |-> e.rows[1][1].v, db_path |-> db_path])
         IN Checked(Execute(get_db_connection(d), VersionSql, <<>>))

\* The statements get_database_info runs after its loop over the tables.
FileInfoSql ==
    <<"PRAGMA database_list;", "PRAGMA page_size;", "PRAGMA page_count;",
      "PRAGMA freelist_count;", "PRAGMA journal_mode;", "PRAGMA synchronous;",
      "SELECT COUNT(*) FROM sqlite_master WHERE type='view';",
      "SELECT COUNT(*) FROM sqlite_master WHERE type='index';",
      "SELECT COUNT(*) FROM sqlite_master WHERE type='trigger';">>

RECURSIVE RunEach(_, _, _)
\* The statements of sqls run in turn: [c, err, out], out the result of each.
RunEach(c, sqls, acc) ==
    IF Len(sqls) = 0 THEN [c |-> c, err |-> "", out |-> acc]
    ELSE LET Ran(e) ==
                 IF e.err # "" THEN [c |-> e.c, err |-> e.err, out |-> acc]
                 ELSE RunEach(e.c, Tail(sqls), Append(acc, [cols |-> e.cols, rows |-> e.rows]))
         IN Ran(Execute(c, sqls[1], <<>>))

get_database_info(d, db_path) ==
    IF db_path = "" THEN Refused(NoPath)
    ELSE IF ~DbExists(db_path)
         THEN Refused([status |-> "error",
                       message |-> "Database file not found at: " \o db_path])
    ELSE LET Told(tables, t, f) ==
                 IF f.err # "" THEN Raised(f.c, DbError(f.err, db_path))
                 ELSE Returned(f.c,
                         [status |-> "success", db_path |-> db_path,
                          file_size_bytes |-> FileSize(d),
                          calculated_size_bytes |->
                              ToNat(f.out[3].rows[1][1].v) * ToNat(f.out[4].rows[1][1].v),
                          page_size |-> f.out[3].rows[1][1].v,
                          page_count |-> f.out[4].rows[1][1].v,
                          freelist_count |-> f.out[5].rows[1][1].v,
                          journal_mode |-> f.out[6].rows[1][1].v,
                          synchronous_mode |-> f.out[7].rows[1][1].v,
                          sqlite_version |-> f.out[1].rows[1][1].v,
                          attached_databases |-> Dicts(f.out[2].cols, f.out[2].rows),
                          tables |-> [i \in 1..Len(t.out) |->
                                         [name |-> t.out[i].name, row_count |-> t.out[i].rows,
                                          column_count |-> t.out[i].columns]],
                          table_count |-> Len(tables),
                          view_count |-> f.out[8].rows[1][1].v,
                          index_count |-> f.out[9].rows[1][1].v,
                          trigger_count |-> f.out[10].rows[1][1].v])
             Counted(tables, v, t) ==
                 IF t.err # "" THEN Raised(t.c, DbError(t.err, db_path))
                 ELSE Told(tables, t, RunEach(t.c, FileInfoSql, v))
             Listed(v, e, tables) ==
                 IF e.err # "" THEN Raised(e.c, DbError(e.err, db_path))
                 ELSE Counted(tables, v, TableDetails(e.c, tables, FALSE, <<>>))
             Tables(v, e) == Listed(v, e, FirstOf(e.rows))
             Versioned(v) ==
                 IF v.err # "" THEN Raised(v.c, DbError(v.err, db_path))
                 ELSE Tables(v.out, Execute(v.c, ListTablesSql, <<>>))
         IN Versioned(RunEach(get_db_connection(d), <<VersionSql>>, <<>>))

\* Connection.backup copies the database into the file at backup_path.  The
\* backup's connection is kept with the source's: its scope commits when it
\* ends, and the statement that verifies the backup runs on it after that.
backup_database(d, db_path, backup_path) ==
    IF db_path = ""
    THEN Refused([status |-> "error", message |-> "Source database path must be provided"])
    ELSE IF backup_path = ""
         THEN Refused([status |-> "error", message |-> "Backup path must be provided"])
    ELSE IF ~DbExists(db_path)
         THEN Refused([status |-> "error",
                       message |-> "Source database not found at: " \o db_path])
    ELSE LET Copied(e, v) ==
                 IF v.err # ""
                 THEN Raised(v.c, [status |-> "error", message |-> v.err, db_path |-> db_path,
                                   backup_path |-> backup_path])
                 ELSE WithFile(Returned(v.c,
                                  [status |-> "success",
                                   message |-> "Database backed up successfully from "
                                               \o db_path \o " to " \o backup_path,
                                   source_path |-> db_path, backup_path |-> backup_path,
                                   source_size_bytes |-> FileSize(d),
                                   backup_size_bytes |-> FileSize(e.c.work)]),
                               backup_path, "sqlite", "", e.c.work)
             Valid(e) ==
                 IF e.err # ""
                 THEN Returned(e.c, [status |-> "error",
                                     message |-> "Source is not a valid SQLite database: "
                                                 \o e.err,
                                     db_path |-> db_path])
                 ELSE Copied(e, Execute(Commit(e.c), VersionSql, <<>>))
         IN Valid(Execute(get_db_connection(d), VersionSql, <<>>))


-----------------------------------------------------------------------------
(* The database the server is pointed at, the files on disk and the       *)
(* arguments the callers send.                                             *)

\* Customer with one row and an index, an empty Order with a trigger.
Db0 ==
    << Entry("table", "Customer", "Customer",
             "CREATE TABLE Customer (Id INTEGER, Name TEXT, Country TEXT)",
             <<Col("Id", "INTEGER"), Col("Name", "TEXT"), Col("Country", "TEXT")>>,
             << <<IntV("1"), TextV("Ann"), TextV("Germany")>> >>),
       Entry("index", "ix_name", "Customer", "CREATE INDEX ix_name ON Customer (Name)",
             <<Col("Name", "")>>, <<>>),
       Entry("table", "Order", "Order", "CREATE TABLE \"Order\" (Id INTEGER)",
             <<Col("Id", "INTEGER")>>, <<>>),
       Entry("trigger", "trg", "Order",
             "CREATE TRIGGER trg AFTER INSERT ON \"Order\" BEGIN SELECT 1; END",
             <<>>, <<>>) >>

\* Table names a caller sends: a table, its case variant, a LIKE pattern
\* that would match it, a name the catalog does not hold, and none.
TableNames == {"Customer", "customer", "Cust%", "Ghost", ""}

\* The path of the database file, and no path.
DbPaths == {"app.db", ""}

\* <<table_name, db_path>> of the calls that take a table: every name on
\* the database, and one call that gives no path.
TableCalls == {<<n, "app.db">> : n \in TableNames} \union {<<"Customer", "">>}

\* json.load of a file holding a list of objects
JsonList(items) == [ok |-> TRUE, msg |-> "", list |-> TRUE, items |-> items]

\* json.load of a file holding one object
JsonObject == [ok |-> TRUE, msg |-> "", list |-> FALSE, items |-> <<>>]

\* json.load of a file that holds no JSON
NotJson ==
    [ok |-> FALSE, msg |-> "Expecting value: line 1 column 1 (char 0)", list |-> FALSE,
     items |-> <<>>]

CsvFile(rows) == [exists |-> TRUE, json |-> NotJson, csv |-> rows]

JsonFile(data) == [exists |-> TRUE, json |-> data, csv |-> <<>>]

NoFile == [exists |-> FALSE, json |-> NotJson, csv |-> <<>>]

\* A field name that closes the quotes the statement puts around it
QuotedName == "a\" INT, \"b"

\* os.path.exists(file_path) and the file's content
FileAt(file_path) ==
    CASE file_path = "people.csv" ->
             CsvFile(<< <<"Name", "Country", "Extra">>, <<"Zed", "Chile", "x">>, <<>> >>)
      [] file_path = "other.csv" -> CsvFile(<< <<"Extra">>, <<"x">> >>)
      [] file_path = "short.csv" ->
             CsvFile(<< <<"Name", "Country">>, <<"Zed", "Chile">>, <<"Ann">> >>)
      [] file_path = "quoted.csv" -> CsvFile(<< <<QuotedName>>, <<"1">> >>)
      [] file_path = "people.json" ->
             JsonFile(JsonList(<< << <<"Name", TextV("Zed")>>, <<"Extra", TextV("x")>> >>,
                                  << <<"Nick", TextV("z")>>, <<"Country", TextV("Peru")>> >> >>))
      [] file_path = "other.json" -> JsonFile(JsonList(<< << <<"Extra", TextV("x")>> >> >>))
      [] file_path = "quoted.json" -> JsonFile(JsonList(<< << <<QuotedName, IntV("1")>> >> >>))
      [] file_path = "object.json" -> JsonFile(JsonObject)
      [] OTHER -> NoFile

\* <<file_path, format>>: each file in its own format and a CSV file read
\* as JSON.
ImportSources ==
    {<<"people.csv", "csv">>, <<"other.csv", "CSV">>, <<"quoted.csv", "csv">>,
     <<"short.csv", "csv">>,
     <<"people.json", "json">>, <<"other.json", "JSON">>, <<"quoted.json", "json">>,
     <<"object.json", "json">>, <<"people.csv", "json">>}

ImportTables == {"Customer", "customer", "Ghost"}

\* <<table_name, db_path, file_path, format, create_table>> of the calls of
\* import_data: every table with every source, and the calls refused
\* before the database is opened.
ImportCalls ==
    {<<n, "app.db", f[1], f[2], b>> : n \in ImportTables, f \in ImportSources, b \in BOOLEAN}
    \union {<<"", "app.db", "people.csv", "csv", TRUE>>,
            <<"Customer", "", "people.csv", "csv", TRUE>>,
            <<"Customer", "app.db", "nofile.csv", "csv", TRUE>>,
            <<"Customer", "app.db", "", "csv", TRUE>>,
            <<"Customer", "app.db", "people.csv", "xml", TRUE>>,
            <<"Customer", "app.db", "people.csv", None, TRUE>>}

\* <<format, limit>> of the calls of export_data
ExportOptions ==
    {<<"csv", NoLimit>>, <<"JSON", [t |-> "int", n |-> 1]>>, <<"csv", [t |-> "int", n |-> 0]>>,
     <<"json", [t |-> "other", n |-> 0]>>, <<"xml", NoLimit>>,
     <<"csv", [t |-> "int", n |-> 1]>>, <<"CSV", [t |-> "int", n |-> 3]>>,
     <<"json", [t |-> "int", n |-> -1]>>, <<None, NoLimit>>}

\* The shop with its tables listed in the order given: Customer with one row
\* and an index, an empty Order that refers to it.
ShopDb(customerFirst) ==
    LET customer == <<Db0[1], Db0[2]>>
        order == << Entry("table", "Order", "Order",
                          "CREATE TABLE \"Order\" (Id INTEGER, CustomerId INTEGER)",
                          <<Col("Id", "INTEGER"), Col("CustomerId", "INTEGER")>>, <<>>) >>
    IN IF customerFirst THEN customer \o order ELSE order \o customer

\* Two tables of text: Note with an empty string and a NULL among its values,
\* Draft with no row; and a view.
NotesDb ==
    << Entry("table", "Note", "Note", "CREATE TABLE Note (Title TEXT, Body TEXT)",
             <<Col("Title", "TEXT"), Col("Body", "TEXT")>>,
             << <<TextV("a"), Null>>, <<TextV(""), TextV("b")>> >>),
       Entry("table", "Draft", "Draft", "CREATE TABLE Draft (Title TEXT)",
             <<Col("Title", "TEXT")>>, <<>>),
       Entry("view", "Titles", "Titles", "CREATE VIEW Titles AS SELECT Title FROM Note",
             <<Col("Title", "TEXT")>>, <<>>) >>

\* One table with one row more than smart_query's cap.
LogDb ==
    << Entry("table", "Log", "Log", "CREATE TABLE Log (Msg TEXT)", <<Col("Msg", "TEXT")>>,
             [i \in 1..51 |-> <<TextV("m")>>]) >>

\* A table with a Location column and no Country, and a table whose name
\* holds the key of the order family without beginning with it.
TradeDb ==
    << Entry("table", "Store", "Store", "CREATE TABLE Store (Name TEXT, Location TEXT)",
             <<Col("Name", "TEXT"), Col("Location", "TEXT")>>,
             << <<TextV("Hub"), TextV("Bonn, Germany")>>, <<TextV("Shop"), TextV("Paris")>> >>),
       Entry("table", "PreOrder", "PreOrder", "CREATE TABLE PreOrder (Id INTEGER)",
             <<Col("Id", "INTEGER")>>, <<>>) >>

\* Tables whose names hold a double quote and a backtick.
OddDb ==
    << Entry("table", "say\"so", "say\"so", "CREATE TABLE [say\"so] (Msg TEXT)",
             <<Col("Msg", "TEXT")>>, << <<TextV("m")>> >>),
       Entry("table", "ti" \o Backtick \o "ck", "ti" \o Backtick \o "ck",
             "CREATE TABLE \"ti" \o Backtick \o "ck\" (Msg TEXT)",
             <<Col("Msg", "TEXT")>>, << <<TextV("m")>> >>) >>

\* The database files the server may be pointed at: the shop in both orders
\* of its tables, tables of text, a large table, tables with a Location and
\* with a family's key inside the name, tables with quote characters in
\* their names, and a file with nothing in it.
Databases == {ShopDb(TRUE), ShopDb(FALSE), NotesDb, LogDb, TradeDb, OddDb, <<>>}

\* The questions callers ask: one that names a table, one that names a table
\* and a word of another table's family, one with a family's word only, one
\* with neither, and none.
Questions ==
    {"show customers from Germany", "orders of each client", "list all clients",
     "purchases this year", "how many rows", ""}

\* <<question, db_path>> of the calls of smart_query
QuestionCalls ==
    {<<q, "app.db">> : q \in Questions} \union {<<"show customers from Germany", "">>}

\* <<table_name, format>> of the exports to a file
FileExports == {"Note", "Draft"} \X {"csv", "json"}

\* What json.load or csv.reader makes of the file an export wrote
FileOf(w) == IF w.format = "json" THEN JsonFile(JsonList(w.data)) ELSE CsvFile(w.data)

\* The statements callers send to execute_sql, query_database and
\* get_query_plan, each with the values to bind.
Statements ==
    {<<"SELECT * FROM Customer", <<>>>>,
     <<"  select count(*) from customer", <<>>>>,
     <<"WITH x AS (SELECT 1) SELECT * FROM x", <<>>>>,
     <<"PRAGMA table_info(Customer)", <<>>>>,
     <<"EXPLAIN SELECT 1", <<>>>>,
     <<"-- c\nSELECT 1", <<>>>>,
     <<"SELECTX 1", <<>>>>,
     <<"SELECT * FROM Ghost", <<>>>>,
     <<"SELECT " \o Backtick \o "no such table" \o Backtick \o " FROM Customer", <<>>>>,
     <<"INSERT INTO Customer (Name) VALUES (?)", <<TextV("Zed")>>>>,
     <<"INSERT INTO Customer (Name) VALUES ('Zed')", <<>>>>,
     <<"INSERT INTO Ghost (a) VALUES ('x')", <<>>>>,
     <<"DELETE FROM Customer", <<>>>>,
     <<"CREATE TABLE Ghost (a TEXT)", <<>>>>,
     <<"DROP TABLE Ghost", <<>>>>,
     <<"", <<>>>>}

\* Where backup_database is told to put the copy, and nowhere
BackupPaths == {"backup.db", ""}

\* <<sql, parameters, db_path>> of the calls that take a statement
StatementCalls ==
    {<<s[1], s[2], "app.db">> : s \in Statements} \union {<<"SELECT * FROM Customer", <<>>, "">>}

-----------------------------------------------------------------------------
(* The server: one request at a time, each handler run to its return.     *)

\* A request: the operation and its arguments, those it does not take
\* left at their defaults.
Req(op) ==
    [op |-> op, table_name |-> "", db_path |-> "", sql |-> "", parameters |-> <<>>,
     file_path |-> "", format |-> "", create_table |-> FALSE, limit |-> NoLimit,
     output_path |-> "", question |-> "", backup_path |-> ""]

\* The calls sent without a database path, of every operation: the request
\* and the arguments after the database.
PathlessCalls ==
    << <<[Req("execute_sql") EXCEPT !.sql = "SELECT * FROM Customer"],
         <<"SELECT * FROM Customer", "", <<>>>> >>,
       <<[Req("execute_sql") EXCEPT !.sql = "DELETE FROM Customer"],
         <<"DELETE FROM Customer", "", <<>>>> >>,
       <<Req("execute_sql"), <<"", "", <<>>>> >>,
       <<[Req("query_database") EXCEPT !.sql = "DELETE FROM Customer"],
         <<"DELETE FROM Customer", "">> >>,
       <<[Req("get_query_plan") EXCEPT !.sql = "SELECT * FROM Customer"],
         <<"SELECT * FROM Customer", "">> >>,
       <<[Req("import_data") EXCEPT !.table_name = "Customer", !.file_path = "people.csv",
                                    !.format = "csv"],
         <<"Customer", "", "people.csv", "csv", FALSE, FileAt("people.csv")>> >>,
       <<[Req("import_data") EXCEPT !.table_name = "Ghost", !.file_path = "people.json",
                                    !.format = "json", !.create_table = TRUE],
         <<"Ghost", "", "people.json", "json", TRUE, FileAt("people.json")>> >>,
       <<[Req("import_data") EXCEPT !.table_name = "Ghost", !.file_path = "nofile.csv",
                                    !.format = "csv", !.create_table = TRUE],
         <<"Ghost", "", "nofile.csv", "csv", TRUE, FileAt("nofile.csv")>> >>,
       <<[Req("export_data") EXCEPT !.table_name = "Customer", !.format = "csv",
                                    !.output_path = "out.csv"],
         <<"Customer", "", "csv", "out.csv", NoLimit>> >>,
       <<[Req("export_data") EXCEPT !.table_name = "Note", !.format = "json",
                                    !.output_path = "out.json"],
         <<"Note", "", "json", "out.json", NoLimit>> >>,
       <<[Req("get_table_info") EXCEPT !.table_name = "Customer"], <<"Customer", "">> >>,
       <<[Req("show_table") EXCEPT !.table_name = "Customer"], <<"Customer", "">> >>,
       <<[Req("list_columns") EXCEPT !.table_name = "Customer"], <<"Customer", "">> >>,
       <<[Req("explain_table") EXCEPT !.table_name = "Customer"], <<"Customer", "">> >>,
       <<[Req("list_indexes") EXCEPT !.table_name = "Customer"], <<"", "Customer">> >>,
       <<[Req("list_triggers") EXCEPT !.table_name = "Customer"], <<"", "Customer">> >>,
       <<[Req("smart_query") EXCEPT !.question = "list all clients"],
         <<"list all clients", "">> >>,
       <<[Req("backup_database") EXCEPT !.backup_path = "backup.db"], <<"", "backup.db">> >>,
       <<Req("list_tables"), <<"">> >>,
       <<Req("list_views"), <<"">> >>,
       <<Req("discover_database"), <<"">> >>,
       <<Req("get_schema_summary"), <<"">> >>,
       <<Req("create_database"), <<"">> >>,
       <<Req("get_database_info"), <<"">> >> >>

Init ==
    /\ db = Db0
    /\ conns = 0
    /\ req = Req("none")
    /\ result = [status |-> "none"]
    /\ stmts = <<>>
    /\ commits = 0
    /\ rollbacks = 0
    /\ srcRead = NoRead
    /\ dbBefore = Db0
    /\ written = NoWrite
    /\ other = NoOther

\* The tools as the server registers them (@mcp.tool()) and cursor.execute.
Call(tool, a) ==
    CASE tool = "cursor.execute" -> CursorExecute(a[1], a[2], a[3])
      [] tool = "list_tables" -> list_tables(a[1], a[2])
      [] tool = "list_columns" -> list_columns(a[1], a[2], a[3])
      [] tool = "execute_sql" -> execute_sql(a[1], a[2], a[3], a[4])
      [] tool = "export_data" -> export_data(a[1], a[2], a[3], a[4], a[5], a[6])
      [] tool = "import_data" -> import_data(a[1], a[2], a[3], a[4], a[7], a[5], a[6])
      [] tool = "get_table_info" -> get_table_info(a[1], a[2], a[3])
      [] tool = "list_indexes" -> list_indexes(a[1], a[2], a[3])
      [] tool = "list_triggers" -> list_triggers(a[1], a[2], a[3])
      [] tool = "show_table" -> show_table(a[1], a[2], a[3])
      [] tool = "query_database" -> query_database(a[1], a[2], a[3])
      [] tool = "explain_table" -> explain_table(a[1], a[2], a[3])
      [] tool = "get_query_plan" -> get_query_plan(a[1], a[2], a[3])
      [] tool = "list_views" -> list_views(a[1], a[2])
      [] tool = "smart_query" -> smart_query(a[1], a[2], a[3])
      [] tool = "discover_database" -> discover_database(a[1], a[2])
      [] tool = "get_schema_summary" -> get_schema_summary(a[1], a[2])
      [] tool = "create_database" -> create_database(a[1], a[2])
      [] tool = "get_database_info" -> get_database_info(a[1], a[2])
      [] tool = "backup_database" -> backup_database(a[1], a[2], a[3])

\* The server takes request r when it has answered the one before, and the
\* handler returns h.  Nothing closes the connection
\* the handler opened: it is closed when the runtime finalizes the object,
\* which may be at the return or later.  A request that would leave a table
\* it changed with more than MaxRows rows is not issued.
Serve(r, h) ==
    LET after == IF h.c.opened THEN h.c.disk ELSE db IN
    /\ req.op = "none"
    /\ ~\E i \in 1..Len(after) :
           Len(after[i].rows) > MaxRows /\ \A j \in 1..Len(db) : db[j] # after[i]
    /\ db' = after
    /\ \E left \in (IF h.c.opened THEN {0, 1} ELSE {0}) :
          /\ conns + left <= MaxConns
          /\ conns' = conns + left
    /\ req' = r
    /\ result' = h.result
    /\ stmts' = h.c.log
    /\ commits' = h.c.commits
    /\ rollbacks' = h.c.rollbacks
    /\ srcRead' = h.src
    /\ dbBefore' = db
    /\ written' = IF h.out.path # "" THEN h.out ELSE written
    /\ UNCHANGED other

ListTables ==
    \E p \in DbPaths :
        Serve([Req("list_tables") EXCEPT !.db_path = p], Call("list_tables", <<db, p>>))

ListColumns ==
    \E a \in TableCalls :
        Serve([Req("list_columns") EXCEPT !.table_name = a[1], !.db_path = a[2]],
              Call("list_columns", <<db, a[1], a[2]>>))

ExecuteSql ==
    \E a \in StatementCalls :
        Serve([Req("execute_sql") EXCEPT !.sql = a[1], !.parameters = a[2], !.db_path = a[3]],
              Call("execute_sql", <<db, a[1], a[3], a[2]>>))

ExportData ==
    \E a \in TableCalls, o \in ExportOptions :
        Serve([Req("export_data") EXCEPT !.table_name = a[1], !.db_path = a[2],
                                         !.format = o[1], !.limit = o[2]],
              Call("export_data", <<db, a[1], a[2], o[1], "", o[2]>>))

ImportData ==
    \E a \in ImportCalls :
        Serve([Req("import_data") EXCEPT !.table_name = a[1], !.db_path = a[2],
                                         !.file_path = a[3], !.format = a[4],
                                         !.create_table = a[5]],
              Call("import_data", <<db, a[1], a[2], a[3], a[4], a[5], FileAt(a[3])>>))

GetTableInfo ==
    \E a \in TableCalls :
        Serve([Req("get_table_info") EXCEPT !.table_name = a[1], !.db_path = a[2]],
              Call("get_table_info", <<db, a[1], a[2]>>))

ListIndexes ==
    \E a \in TableCalls :
        Serve([Req("list_indexes") EXCEPT !.table_name = a[1], !.db_path = a[2]],
              Call("list_indexes", <<db, a[2], a[1]>>))

ListTriggers ==
    \E a \in TableCalls :
        Serve([Req("list_triggers") EXCEPT !.table_name = a[1], !.db_path = a[2]],
              Call("list_triggers", <<db, a[2], a[1]>>))

ShowTable ==
    \E a \in TableCalls :
        Serve([Req("show_table") EXCEPT !.table_name = a[1], !.db_path = a[2]],
              Call("show_table", <<db, a[1], a[2]>>))

QueryDatabase ==
    \E a \in StatementCalls :
        Serve([Req("query_database") EXCEPT !.sql = a[1], !.db_path = a[3]],
              Call("query_database", <<db, a[1], a[3]>>))

ExplainTable ==
    \E a \in TableCalls :
        Serve([Req("explain_table") EXCEPT !.table_name = a[1], !.db_path = a[2]],
              Call("explain_table", <<db, a[1], a[2]>>))

GetQueryPlan ==
    \E a \in StatementCalls :
        Serve([Req("get_query_plan") EXCEPT !.sql = a[1], !.db_path = a[3]],
              Call("get_query_plan", <<db, a[1], a[3]>>))

ListViews ==
    \E p \in DbPaths :
        Serve([Req("list_views") EXCEPT !.db_path = p], Call("list_views", <<db, p>>))

SmartQuery ==
    \E a \in QuestionCalls :
        Serve([Req("smart_query") EXCEPT !.question = a[1], !.db_path = a[2]],
              Call("smart_query", <<db, a[1], a[2]>>))

DiscoverDatabase ==
    \E p \in DbPaths :
        Serve([Req("discover_database") EXCEPT !.db_path = p],
              Call("discover_database", <<db, p>>))

GetSchemaSummary ==
    \E p \in DbPaths :
        Serve([Req("get_schema_summary") EXCEPT !.db_path = p],
              Call("get_schema_summary", <<db, p>>))

CreateDatabase ==
    \E p \in DbPaths :
        Serve([Req("create_database") EXCEPT !.db_path = p], Call("create_database", <<db, p>>))

GetDatabaseInfo ==
    \E p \in DbPaths :
        Serve([Req("get_database_info") EXCEPT !.db_path = p],
              Call("get_database_info", <<db, p>>))

BackupDatabase ==
    \E p \in DbPaths, b \in BackupPaths :
        Serve([Req("backup_database") EXCEPT !.db_path = p, !.backup_path = b],
              Call("backup_database", <<db, p, b>>))

\* A call that gives no database path.
WithoutPath ==
    \E i \in 1..Len(PathlessCalls) :
        Serve(PathlessCalls[i][1], Call(PathlessCalls[i][1].op, <<db>> \o PathlessCalls[i][2]))

\* export_data with an output_path: the file holds what the handler wrote
ExportToFile ==
    \E a \in FileExports :
        Serve([Req("export_data") EXCEPT !.table_name = a[1], !.db_path = "app.db",
                                         !.format = a[2], !.output_path = "out." \o a[2]],
              Call("export_data", <<db, a[1], "app.db", a[2], "out." \o a[2], NoLimit>>))

\* import_data of the file an export wrote, in the format it was written in,
\* into the table Copy
ImportExported ==
    /\ written.format \in {"csv", "json"}
    /\ Serve([Req("import_data") EXCEPT !.table_name = "Copy", !.db_path = "app.db",
                                         !.file_path = written.path,
                                         !.format = written.format, !.create_table = TRUE],
              Call("import_data", <<db, "Copy", "app.db", written.path, written.format, TRUE,
                                    FileOf(written)>>))

\* The response has gone to the caller; the server waits for a request.
Respond ==
    /\ req.op # "none"
    /\ req' = Req("none")
    /\ result' = [status |-> "none"]
    /\ stmts' = <<>>
    /\ commits' = 0
    /\ rollbacks' = 0
    /\ srcRead' = NoRead
    /\ dbBefore' = db
    /\ other' = NoOther
    /\ UNCHANGED <<db, conns, written>>

\* The runtime finalizes the connection objects no handler holds any more.
Collect ==
    /\ conns > 0
    /\ conns' = 0
    /\ UNCHANGED <<db, req, result, stmts, commits, rollbacks, srcRead, dbBefore, written,
                   other>>

Next ==
    \/ ListTables
    \/ ListColumns
    \/ ExecuteSql
    \/ ExportData
    \/ GetTableInfo
    \/ ListIndexes
    \/ ListTriggers
    \/ ShowTable
    \/ QueryDatabase
    \/ ExplainTable
    \/ GetQueryPlan
    \/ Respond
    \/ Collect

Spec == Init /\ [][Next]_vars

\* The server answering imports, and reads of what they left.
ImportNext ==
    \/ ImportData
    \/ ShowTable
    \/ Respond
    \/ Collect

ImportSpec == Init /\ [][ImportNext]_vars

\* The server started on any of the database files, answering the
\* operations that read the catalog and an export to a file with the
\* import of that file.
SurveyInit ==
    /\ db \in Databases
    /\ conns = 0
    /\ req = Req("none")
    /\ result = [status |-> "none"]
    /\ stmts = <<>>
    /\ commits = 0
    /\ rollbacks = 0
    /\ srcRead = NoRead
    /\ dbBefore = db
    /\ written = NoWrite
    /\ other = NoOther

SurveyNext ==
    \/ ListTables
    \/ ListColumns
    \/ ExplainTable
    \/ ListIndexes
    \/ ListTriggers
    \/ ListViews
    \/ SmartQuery
    \/ DiscoverDatabase
    \/ GetSchemaSummary
    \/ ExportToFile
    \/ ImportExported
    \/ Respond
    \/ Collect

SurveySpec == SurveyInit /\ [][SurveyNext]_vars

\* The server started on any of the database files, answering the
\* operations on the file as a whole and the calls that give no database
\* path.
FileNext ==
    \/ CreateDatabase
    \/ GetDatabaseInfo
    \/ BackupDatabase
    \/ WithoutPath
    \/ Respond
    \/ Collect

FileSpec == SurveyInit /\ [][FileNext]_vars

-----------------------------------------------------------------------------
(* The server beside other processes that open the same database file.    *)

\* What another process does while a request runs: it commits a change just
\* before the request's statement number `at`, or it holds a lock on the
\* file for the whole of the request.
Schedules ==
    {[at |-> k, act |-> "drop", tbl |-> "Customer"] : k \in 1..2}
    \union {[at |-> k, act |-> "insert", tbl |-> "Customer"] : k \in 2..3}
    \union {[at |-> 0, act |-> a, tbl |-> ""] : a \in {"reserved", "exclusive"}}

\* <<sql, parameters>> of the statements sent beside other processes
SharedStatements ==
    {<<"SELECT * FROM Customer", <<>>>>,
     <<"INSERT INTO Customer (Name) VALUES ('Zed')", <<>>>>}

\* <<table_name, file_path, format, create_table>> of the imports sent
\* beside other processes
SharedImports == {<<"Customer", "people.csv", "csv", FALSE>>}

\* Another process commits a change between two requests.
OtherCommits ==
    /\ req.op = "none"
    /\ other = NoOther
    /\ \E a \in {"drop", "insert"} :
          /\ Committed(db, a, "Customer") # db
          /\ \A i \in 1..Len(Committed(db, a, "Customer")) :
                 Len(Committed(db, a, "Customer")[i].rows) <= MaxRows
          /\ db' = Committed(db, a, "Customer")
    /\ UNCHANGED <<conns, req, result, stmts, commits, rollbacks, srcRead, dbBefore, written,
                   other>>

\* Another process is about to act while the next request runs.
Contend ==
    /\ req.op = "none"
    /\ other = NoOther
    /\ other' \in Schedules
    /\ UNCHANGED <<db, conns, req, result, stmts, commits, rollbacks, srcRead, dbBefore,
                   written>>

\* The requests that read: the table list, the columns and rows of a table,
\* a question, and export_data of a table to a file
SharedRead ==
    \/ Serve([Req("list_tables") EXCEPT !.db_path = "app.db"],
             Call("list_tables", <<db, "app.db">>))
    \/ Serve([Req("list_columns") EXCEPT !.table_name = "Customer", !.db_path = "app.db"],
             Call("list_columns", <<db, "Customer", "app.db">>))
    \/ Serve([Req("show_table") EXCEPT !.table_name = "Customer", !.db_path = "app.db"],
             Call("show_table", <<db, "Customer", "app.db">>))
    \/ Serve([Req("smart_query") EXCEPT !.question = "list all clients", !.db_path = "app.db"],
             Call("smart_query", <<db, "list all clients", "app.db">>))
    \/ Serve([Req("export_data") EXCEPT !.table_name = "Customer", !.db_path = "app.db",
                                        !.format = "json", !.output_path = "out.json"],
             Call("export_data", <<db, "Customer", "app.db", "json", "out.json", NoLimit>>))

\* The requests that may write: execute_sql, query_database, import_data
SharedWrite ==
    \/ \E a \in SharedStatements :
          Serve([Req("execute_sql") EXCEPT !.sql = a[1], !.parameters = a[2],
                                           !.db_path = "app.db"],
                Call("execute_sql", <<db, a[1], "app.db", a[2]>>))
    \/ \E a \in SharedStatements :
          Serve([Req("query_database") EXCEPT !.sql = a[1], !.db_path = "app.db"],
                Call("query_database", <<db, a[1], "app.db">>))
    \/ \E a \in SharedImports :
          Serve([Req("import_data") EXCEPT !.table_name = a[1], !.db_path = "app.db",
                                           !.file_path = a[2], !.format = a[3],
                                           !.create_table = a[4]],
                Call("import_data", <<db, a[1], "app.db", a[2], a[3], a[4], FileAt(a[2])>>))

SharedNext ==
    \/ OtherCommits
    \/ Contend
    \/ SharedRead
    \/ SharedWrite
    \/ Respond
    \/ Collect

SharedSpec == Init /\ [][SharedNext]_vars

-----------------------------------------------------------------------------
(* The properties.  A state with req.op # "none" is the state a handler   *)
(* leaves: req is the request, result the record returned, stmts the      *)
(* statements executed, dbBefore the database the request found.          *)

\* The operations that take a table name.
TableOps ==
    {"list_columns", "export_data", "get_table_info", "show_table", "explain_table",
     "list_indexes", "list_triggers"}

\* The catalog of d holds an entry of kind 'table' named exactly n.
InCatalog(d, n) == \E i \in 1..Len(d) : d[i].type = "table" /\ d[i].name = n

\* The request names a table and passes the argument checks that stand
\* before the catalog lookup.
NamesTable ==
    /\ req.op \in TableOps
    /\ req.table_name # ""
    /\ req.db_path # ""
    /\ req.op = "export_data" => Lower(req.format) \in {"csv", "json"}

\* After its lookup (the first statement) the handler executed a statement
\* built from n: one holding n in its text or bound to it.
BuiltFrom(n) ==
    \E i \in 2..Len(stmts) : Contains(stmts[i].sql, n) \/ InSeq(TextV(n), stmts[i].params)

\* A statement executed holds n in its text.
TextHolds(n) == \E i \in 1..Len(stmts) : Contains(stmts[i].sql, n)

\* C1: a table-taking operation goes on to build a statement from the name
\* n it was given if and only if the catalog holds a table named exactly n
\* (same case, no wildcard); otherwise it returns an error and executes no
\* statement whose text contains n.
C1_ExactNameGate ==
    NamesTable =>
        /\ BuiltFrom(req.table_name) <=> InCatalog(dbBefore, req.table_name)
        /\ ~InCatalog(dbBefore, req.table_name) =>
               result.status = "error" /\ ~TextHolds(req.table_name)

\* C1, reached: a name that differs from a table's only in case was refused
\* after the lookup, the only statement executed.
C1_CaseVariantRefused ==
    /\ NamesTable
    /\ req.table_name = "customer"
    /\ InCatalog(dbBefore, "Customer")
    /\ result.status = "error"
    /\ Len(stmts) = 1

\* The field names the file the request names holds: the keys of its
\* objects and the fields of its header.
SourceFields ==
    LET file == FileAt(req.file_path) IN
    IF req.op # "import_data" THEN {}
    ELSE UNION {{file.json.items[i][k][1] : k \in 1..Len(file.json.items[i])} :
                   i \in 1..Len(file.json.items)}
         \cup (IF Len(file.csv) = 0 THEN {} ELSE {file.csv[1][k] : k \in 1..Len(file.csv[1])})

\* The strings of the caller that may reach a statement's text.
CallerStrings == ({req.table_name, req.sql} \cup SourceFields) \ {""}

\* x went into the text among other text.
Spliced(x, text) == text # x /\ Contains(text, x)

\* The names of the columns of the table named n in d.
ColumnNames(d, n) ==
    UNION {{d[i].cols[k].name : k \in 1..Len(d[i].cols)} :
               i \in {i \in 1..Len(d) : d[i].type = "table" /\ d[i].name = n}}

\* Before statement i the request matched x against the catalog: it looked the
\* table x up and found it, or read the columns of its table and x is one.
Matched(x, i) ==
    \E j \in 1..(i - 1) :
        \/ /\ stmts[j].sql = TableExistsSql
           /\ stmts[j].params = <<TextV(x)>>
           /\ InCatalog(dbBefore, x)
        \/ /\ stmts[j].sql = TableInfoSql(req.table_name)
           /\ x \in ColumnNames(db, req.table_name)

\* C2: every string of the caller that is spliced into the text of an
\* executed statement (a table name, a field name of the import file, the
\* query text) was matched against the catalog earlier in the same request.
C2_SplicedAfterMatch ==
    \A i \in 1..Len(stmts) : \A x \in CallerStrings :
        Spliced(x, stmts[i].sql) => Matched(x, i)

\* C3: no connection is open once a request has returned.
C3_NoOpenConnection == conns = 0

\* The leading keyword of a statement: the first word after the white space.
LeadingKeyword(sql) ==
    LET t == LStrip(sql) IN Upper(SubSeq(t, 1, RunLen(t, WordChars)))

\* The request is a statement that execute_sql or query_database ran.
RanStatement ==
    /\ req.op \in {"execute_sql", "query_database"}
    /\ req.sql # ""
    /\ req.db_path # ""

\* C4 as stated: a call with a write statement performs exactly one commit,
\* whether the statement succeeds or fails.
C4_ExactlyOneCommit ==
    RanStatement /\ LeadingKeyword(req.sql) # "SELECT" => commits = 1

\* C4 as the code has it: a write statement that succeeds is committed twice
\* (the handler's commit, then the connection scope's on exit); one that
\* fails is not committed at all: the scope rolls back and the database is
\* as the request found it.
C4_TwoCommitsOrRollback ==
    RanStatement /\ LeadingKeyword(req.sql) # "SELECT" =>
        IF result.status = "success"
        THEN commits = 2 /\ rollbacks = 0
        ELSE commits = 0 /\ rollbacks = 1 /\ db = dbBefore

\* C4, reached: a DELETE emptied the table and was committed twice.
C4_DeleteCommittedTwice ==
    /\ RanStatement
    /\ LeadingKeyword(req.sql) = "DELETE"
    /\ result.status = "success"
    /\ commits = 2
    /\ db # dbBefore

\* C5: a statement that ran is answered as a read (with rows) if and only
\* if its leading keyword is SELECT in any case; every other statement,
\* the row-returning WITH, PRAGMA, EXPLAIN and a statement behind a comment
\* among them, is committed by the handler and answered without rows.
C5_ReadIffSelect ==
    RanStatement /\ result.status = "success" =>
        /\ "rows" \in DOMAIN result <=> LeadingKeyword(req.sql) = "SELECT"
        /\ LeadingKeyword(req.sql) = "SELECT" => commits = 1
        /\ LeadingKeyword(req.sql) # "SELECT" =>
               /\ commits = 2
               /\ "rows" \notin DOMAIN result
               /\ "columns" \notin DOMAIN result

\* C5, reached: a WITH statement, which returns rows, was answered as a
\* write.
C5_WithAnsweredAsWrite ==
    /\ RanStatement
    /\ LeadingKeyword(req.sql) = "WITH"
    /\ result.status = "success"
    /\ "rows" \notin DOMAIN result
    /\ commits = 2

\* C6: at both entry points a read that succeeds returns columns and rows;
\* a write that succeeds returns rows_affected only when the count is not
\* -1, and otherwise a message without rows_affected.
C6_ResultShape ==
    RanStatement /\ result.status = "success" =>
        IF LeadingKeyword(req.sql) = "SELECT"
        THEN {"columns", "rows"} \subseteq DOMAIN result
        ELSE \/ "rows_affected" \in DOMAIN result /\ result.rows_affected # -1
             \/ "message" \in DOMAIN result /\ "rows_affected" \notin DOMAIN result

\* What the not-found form of the entry points puts before the engine's text
NotFoundLead ==
    "Table not found. Use 'list_tables' tool first to see available tables. Error: "

\* The message the engine raised, taken back out of the error record.
EngineMessage ==
    IF StartsWith(result.message, NotFoundLead)
    THEN From(result.message, Len(NotFoundLead) + 1)
    ELSE result.message

\* C7: an engine error in execute_sql or query_database comes back as an
\* error record; it carries the suggestion to list the tables when the
\* error is the engine's "no such table" error, and for every other engine
\* error it carries none.
C7_SuggestionIffNoSuchTable ==
    RanStatement /\ result.status # "success" =>
        /\ result.status = "error"
        /\ "suggestion" \in DOMAIN result <=> StartsWith(EngineMessage, "no such table: ")

\* The request reaches the import: its arguments pass the checks that
\* stand before the database is opened.
ReachesImport ==
    /\ req.op = "import_data"
    /\ req.table_name # ""
    /\ req.db_path # ""
    /\ FileAt(req.file_path).exists
    /\ Lower(req.format) \in {"csv", "json"}

\* C8: import_data into a table the catalog does not hold, with
\* create_table false, returns an error, takes nothing from the source and
\* leaves the database as it found it.
C8_AbsentTableNoCreate ==
    req.op = "import_data" /\ ~InCatalog(dbBefore, req.table_name) /\ ~req.create_table =>
        /\ result.status = "error"
        /\ srcRead = NoRead
        /\ db = dbBefore

\* C8, reached: an import that got as far as the lookup was refused there.
C8_RefusedAtLookup ==
    /\ ReachesImport
    /\ req.table_name = "Ghost"
    /\ ~InCatalog(dbBefore, "Ghost")
    /\ ~req.create_table
    /\ Len(stmts) = 1
    /\ result.status = "error"
    /\ srcRead = NoRead
    /\ db = dbBefore

\* The records of the source in the format asked for, each the sequence of
\* its <<field, text>> pairs: the objects of a JSON list, the data rows of a
\* CSV file under its header.
SourceRecords ==
    LET file == FileAt(req.file_path) IN
    IF Lower(req.format) = "json"
    THEN [i \in 1..Len(file.json.items) |->
             [k \in 1..Len(file.json.items[i]) |->
                 <<file.json.items[i][k][1], file.json.items[i][k][2].v>>]]
    ELSE [i \in 1..(Len(file.csv) - 1) |->
             [k \in 1..Len(file.csv[i + 1]) |-> <<file.csv[1][k], file.csv[i + 1][k]>>]]

\* The source has a first record: a JSON list that is not empty, a CSV file
\* with a header.
HasFirstRecord ==
    LET file == FileAt(req.file_path) IN
    IF Lower(req.format) = "json"
    THEN file.json.ok /\ file.json.list /\ Len(file.json.items) > 0
    ELSE Len(file.csv) > 0

\* The field names of the first record, in order.
FirstFields ==
    LET file == FileAt(req.file_path) IN
    IF Lower(req.format) = "json"
    THEN [k \in 1..Len(file.json.items[1]) |-> file.json.items[1][k][1]]
    ELSE file.csv[1]

\* The entries of d that are the table named exactly n.
TablesNamed(d, n) == {i \in 1..Len(d) : d[i].type = "table" /\ d[i].name = n}

\* C9: import_data with create_table true into a table the catalog does not
\* hold creates the table with exactly the fields of the first record as its
\* columns, in order and all TEXT; a field only later records have is no
\* column.
C9_ColumnsOfFirstRecord ==
    ReachesImport /\ HasFirstRecord /\ ~InCatalog(dbBefore, req.table_name)
        /\ req.create_table =>
        \E i \in TablesNamed(db, req.table_name) :
            db[i].cols = [k \in 1..Len(FirstFields) |-> Col(FirstFields[k], "TEXT")]

\* The fields of record rec that are among the names.
KnownFields(rec, names) == {k \in 1..Len(rec) : rec[k][1] \in names}

\* The records of the source with a field the table has, in order.
KeptRecords(names) ==
    LET all == SourceRecords
        F[i \in 0..Len(all)] ==
            IF i = 0 THEN <<>>
            ELSE IF KnownFields(all[i], names) # {} THEN Append(F[i - 1], all[i])
            ELSE F[i - 1]
    IN F[Len(all)]

\* Row is record rec cut down to the columns: each column holds the
\* record's text for it, or NULL when the record has no such field.
RowOf(row, cols, rec) ==
    /\ Len(row) = Len(cols)
    /\ \A c \in 1..Len(cols) :
          LET at == {k \in 1..Len(rec) : rec[k][1] = cols[c].name} IN
          IF at = {} THEN row[c] = Null
          ELSE \E k \in at : row[c].t # "null" /\ row[c].v = rec[k][2]

\* C10: in both formats an import into a table the catalog holds drops the
\* fields that are no columns and inserts the rest of each row; a row, or a
\* whole source, left with no field is skipped, not counted, and no error.
C10_DropsUnknownFields ==
    ReachesImport /\ HasFirstRecord /\ InCatalog(dbBefore, req.table_name) =>
        \E i \in TablesNamed(dbBefore, req.table_name) :
            LET kept == KeptRecords(ColumnNames(dbBefore, req.table_name))
                had == Len(dbBefore[i].rows)
            IN /\ result.status = "success"
               /\ result.rows_imported = Len(kept)
               /\ Len(db[i].rows) = had + Len(kept)
               /\ \A r \in 1..had : db[i].rows[r] = dbBefore[i].rows[r]
               /\ \A r \in 1..Len(kept) : RowOf(db[i].rows[had + r], db[i].cols, kept[r])

\* The number of rows the table named exactly n holds in d, 0 when d has no
\* such table.
RowsIn(d, n) ==
    LET at == TablesNamed(d, n) IN
    IF at = {} THEN 0 ELSE Len(d[CHOOSE i \in at : TRUE].rows)

\* C11: whenever import_data returns success, rows_imported is the number of
\* rows the call added to the target table: its row count after the call
\* minus its row count before, for every source and both formats.
C11_CountsRowsAdded ==
    req.op = "import_data" /\ result.status = "success" =>
        result.rows_imported = RowsIn(db, req.table_name) - RowsIn(dbBefore, req.table_name)

\* C11, reached: a CSV import took the header, a row and an empty line from
\* its file, inserted the row and counted one.
C11_EmptyLineNotCounted ==
    /\ req.op = "import_data"
    /\ req.file_path = "people.csv"
    /\ Lower(req.format) = "csv"
    /\ result.status = "success"
    /\ srcRead.rows = 3
    /\ result.rows_imported = 1
    /\ RowsIn(db, req.table_name) = RowsIn(dbBefore, req.table_name) + 1

\* Every column of the table named exactly n in d is declared TEXT.
TextTyped(d, n) ==
    /\ InCatalog(d, n)
    /\ \A i \in TablesNamed(d, n) : \A c \in 1..Len(d[i].cols) : d[i].cols[c].type = "TEXT"

\* The copy has as many rows as the original and, under each of the
\* original's column names, the original's values row by row.
SameContent(copy, orig) ==
    /\ Len(copy.rows) = Len(orig.rows)
    /\ \A c \in 1..Len(orig.cols) :
          \E k \in 1..Len(copy.cols) :
              /\ copy.cols[k].name = orig.cols[c].name
              /\ \A r \in 1..Len(orig.rows) : copy.rows[r][k] = orig.rows[r][c]

\* The request imports the file an export wrote, into a table the catalog
\* does not hold, with create_table true.
ImportsExport ==
    /\ req.op = "import_data"
    /\ written.path # ""
    /\ req.file_path = written.path
    /\ req.format = written.format
    /\ req.create_table
    /\ ~InCatalog(dbBefore, req.table_name)

\* C12: for a table of text columns (one with no row, or with NULL or empty
\* values, included) and each format, export_data followed by import_data of
\* what it wrote into an absent table with create_table true succeeds, and
\* the new table has the original's row count and, column by column, its
\* values.
C12_RoundTrip ==
    ImportsExport /\ TextTyped(dbBefore, written.table) =>
        /\ result.status = "success"
        /\ \E i \in TablesNamed(db, req.table_name) :
              \E j \in TablesNamed(dbBefore, written.table) : SameContent(db[i], dbBefore[j])

\* The smaller of two numbers
Min(a, b) == IF a < b THEN a ELSE b

\* The column names list_columns reports for the table, in its order.
DescribedColumns(d, n, db_path) ==
    LET Names(columns) == [i \in 1..Len(columns) |-> columns[i][2][2].v]
    IN Names(Call("list_columns", <<d, n, db_path>>).result.columns)

\* The request exports a table the catalog holds as CSV with a limit that
\* is an integer above zero.
ExportsCsvLimited ==
    /\ req.op = "export_data"
    /\ req.db_path # ""
    /\ InCatalog(dbBefore, req.table_name)
    /\ Lower(req.format) = "csv"
    /\ req.limit.t = "int"
    /\ req.limit.n > 0

\* C13: for a table with r rows and an integer limit n > 0, export_data as
\* CSV yields one header row followed by min(n, r) data rows, and the
\* header lists the table's columns in the order list_columns gives them.
C13_HeaderThenLimitedRows ==
    ExportsCsvLimited =>
        /\ result.status = "success"
        /\ Len(result.data) = 1 + Min(req.limit.n, RowsIn(dbBefore, req.table_name))
        /\ result.data[1] = DescribedColumns(dbBefore, req.table_name, req.db_path)
        /\ \A i \in 2..Len(result.data) : Len(result.data[i]) = Len(result.data[1])
        /\ result.row_count = Len(result.data) - 1

\* C13, reached: a limit of one cut the export of a table of two rows to one
\* data row under the header.
C13_LimitCutsRows ==
    /\ ExportsCsvLimited
    /\ req.limit.n = 1
    /\ RowsIn(dbBefore, req.table_name) = 2
    /\ Len(result.data) = 2
    /\ result.data[1] = <<"Id", "Name", "Country">>

\* The names of the tables of d in the order the catalog lists them.
Catalog(d) ==
    LET IsTable(e) == e.type = "table"
        Names(t) == [i \in 1..Len(t) |-> t[i].name]
    IN Names(SelectSeq(d, IsTable))

\* The table three ordered steps over the whole list select: the first whose
\* name is in the question; failing that, the first a keyword matches;
\* failing both, the first table.
OrderedRoute(question, tables) ==
    LET q == Lower(question)
        literal == First({i \in 1..Len(tables) : Contains(q, Lower(tables[i]))})
        synonym == First({i \in 1..Len(tables) : KeywordMatch(Lower(tables[i]), q)})
    IN IF literal # 0 THEN tables[literal]
       ELSE IF synonym # 0 THEN tables[synonym]
       ELSE tables[1]

\* smart_query answered the question from a table.
Routed == req.op = "smart_query" /\ result.status = "success"

\* C14: smart_query selects its table by three ordered steps over the whole
\* catalog: the first table whose name is in the question; only if there is
\* none, the first matched through the synonyms; only if neither, the first
\* table.  A table matched by a synonym never wins over a later table named
\* in the question.
C14_ThreeOrderedSteps ==
    Routed => result.table_used = OrderedRoute(req.question, Catalog(dbBefore))

\* The database with the catalog of d and nothing else: its tables in
\* order, with their columns and no row.
Bare(d) ==
    LET IsTable(e) == e.type = "table"
        Emptied(t) == [i \in 1..Len(t) |-> [t[i] EXCEPT !.rows = <<>>]]
    IN Emptied(SelectSeq(d, IsTable))

\* C15: the routing is a function of the question and the catalog: the call
\* resolved to the table and the query text that the same question resolves
\* to on any database with the same tables in the same order and the same
\* columns, one without rows, indexes, views or triggers among them.
C15_RouteFromCatalogOnly ==
    Routed =>
        LET again == Call("smart_query", <<Bare(dbBefore), req.question, req.db_path>>).result
        IN /\ again.status = "success"
           /\ again.table_used = result.table_used
           /\ again.query_executed = result.query_executed

\* C15, reached: a question was answered from a database that holds rows
\* and an index besides its catalog, while an earlier connection was open.
C15_RoutedOverData ==
    /\ Routed
    /\ dbBefore # Bare(dbBefore)
    /\ result.row_count > 0
    /\ conns > 0

\* The catalog is Customer(Id, Name, Country) and Order(Id, CustomerId), in
\* either order.
ShopCatalog == Bare(dbBefore) \in {Bare(ShopDb(TRUE)), Bare(ShopDb(FALSE))}

\* C16: on the catalog {Customer(Id, Name, Country), Order(Id, CustomerId)}
\* in either order, "show customers from Germany" is answered from
\* Customer, with the predicate Country = 'Germany' and the cap.
C16_GermanyFromCustomer ==
    req.op = "smart_query" /\ req.db_path # "" /\ ShopCatalog
        /\ req.question = "show customers from Germany" =>
        /\ result.status = "success"
        /\ result.table_used = "Customer"
        /\ result.query_executed
              = "SELECT * FROM " \o Backtick \o "Customer" \o Backtick
                \o " WHERE Country = 'Germany' LIMIT 50"
        /\ stmts[Len(stmts)].sql = result.query_executed

\* C16, reached: with Order listed first the question was answered from
\* Customer and returned the customer from Germany.
C16_OrderListedFirst ==
    /\ req.op = "smart_query"
    /\ req.question = "show customers from Germany"
    /\ Catalog(dbBefore) = <<"Order", "Customer">>
    /\ result.status = "success"
    /\ result.table_used = "Customer"
    /\ result.row_count = 1

\* s.endswith(p)
EndsWith(s, p) == Len(s) >= Len(p) /\ SubSeq(s, Len(s) - Len(p) + 1, Len(s)) = p

\* C17: the query smart_query executes ends with LIMIT 50, and a
\* successful response holds at most 50 rows, whatever the question.
C17_AlwaysCapped ==
    req.op = "smart_query" /\ Len(stmts) >= 3 =>
        /\ EndsWith(stmts[3].sql, " LIMIT 50")
        /\ result.status = "success" =>
               /\ result.query_executed = stmts[3].sql
               /\ Len(result.data) <= 50
               /\ result.row_count <= 50

\* C17, reached: a table of more than 50 rows was answered with 50.
C17_CutAtFifty ==
    /\ Routed
    /\ RowsIn(dbBefore, result.table_used) > 50
    /\ Len(result.data) = 50

\* C18: every operation that rejects a table name because the catalog does
\* not hold it returns an error that carries the complete list of the
\* table names.
C18_NotFoundListsTables ==
    NamesTable /\ ~InCatalog(dbBefore, req.table_name) =>
        /\ result.status = "error"
        /\ "available_tables" \in DOMAIN result
        /\ result.available_tables = Catalog(dbBefore)

\* The request asks for the description of a table.
Describes ==
    /\ req.op \in {"list_columns", "explain_table"}
    /\ req.table_name # ""
    /\ req.db_path # ""

\* C19: on every database, one without tables included, describing a name
\* the catalog does not hold returns the not-found error, never the record
\* made from a caught exception, and describing a table it holds returns
\* success.
C19_NotFoundNotUnexpected ==
    Describes =>
        IF InCatalog(dbBefore, req.table_name)
        THEN result.status = "success"
        ELSE /\ result.status = "error"
             /\ result.message = NotFound(req.table_name)

\* The operations that read the catalog as a whole.
CatalogOps ==
    {"list_tables", "list_indexes", "list_triggers", "list_views", "discover_database",
     "get_schema_summary"}

\* C20: on a database with no table, index, view or trigger every operation
\* that reads the catalog returns success, not an error.
C20_EmptyDatabaseSucceeds ==
    req.op \in CatalogOps /\ req.db_path # "" /\ req.table_name = "" /\ dbBefore = <<>> =>
        result.status = "success"

\* The nineteen operations the server registers.
Tools ==
    {"list_tables", "list_columns", "execute_sql", "create_database", "export_data",
     "import_data", "get_table_info", "get_database_info", "backup_database", "list_indexes",
     "list_triggers", "list_views", "show_table", "query_database", "smart_query",
     "discover_database", "explain_table", "get_schema_summary", "get_query_plan"}

C24_AlwaysARecord ==
    req.op # "none" => result.status \in {"success", "error"}

\* The request exports a table the catalog holds, in a format export_data
\* knows.
ExportsTable ==
    /\ req.op = "export_data"
    /\ req.db_path # ""
    /\ req.format # None
    /\ Lower(req.format) \in {"csv", "json"}
    /\ InCatalog(dbBefore, req.table_name)

ReachedDatabase ==
    /\ req.op = "import_data"
    /\ Len(stmts) > 0

\* C29: an import that returns an error leaves none of its rows behind, in
\* whatever row the error came; and an error returned from inside the
\* connection scope (which commits on the way out) leaves the database as
\* the request found it, without a new table.
C29_ErrorLeavesNothing ==
    ReachedDatabase /\ result.status = "error" =>
        /\ \A i \in 1..Len(db) :
               IF \E j \in 1..Len(dbBefore) : dbBefore[j].name = db[i].name
               THEN \E j \in 1..Len(dbBefore) : dbBefore[j] = db[i]
               ELSE db[i].rows = <<>>
        /\ rollbacks = 0 => db = dbBefore

\* The inner loop as it would be with the family's key matched against the
\* beginning of the table's name only.
PrefixMatch(table_lower, question_lower) ==
    \E i \in 1..Len(table_keywords) :
        /\ StartsWith(table_lower, table_keywords[i][1])
        /\ \E k \in 1..Len(table_keywords[i][2]) :
              Contains(question_lower, table_keywords[i][2][k])

\* The table the loop selects when a family selects a table by prefix only.
PrefixRoute(question, tables) ==
    LET Chosen(hit) == IF hit = 0 THEN tables[1] ELSE tables[hit]
    IN Chosen(First({i \in 1..Len(tables) :
                        \/ Contains(Lower(question), Lower(tables[i]))
                        \/ PrefixMatch(Lower(tables[i]), Lower(question))}))

\* C26: in the synonym step a family selects a table only when the table's
\* lowercased name begins with the family's key; a table whose name holds the
\* key elsewhere (PreOrder for the order family) is not selected by it.
C26_FamilyByPrefix ==
    Routed => result.table_used = PrefixRoute(req.question, Catalog(dbBefore))

\* The predicate the question and the columns of the table used call for.
Predicate(question, cols) ==
    LET asks == Contains(Lower(question), "germany") \/ Contains(Lower(question), "german")
        Has(n) == \E i \in 1..Len(cols) : Lower(cols[i].name) = n
    IN IF asks /\ Has("country") THEN " WHERE Country = 'Germany'"
       ELSE IF asks /\ Has("location") THEN " WHERE Location LIKE '%Germany%'"
       ELSE ""

\* C27: smart_query appends a predicate if and only if the question holds
\* 'germany' or 'german' and the table used has a column country or location
\* (in any case): Country = 'Germany' with a country column, otherwise
\* Location LIKE '%Germany%'; in every other case the query has no WHERE.
\* The predicate follows from the question and the columns of the table used.
C27_PredicateFromQuestionAndColumns ==
    Routed =>
        \A i \in TablesNamed(dbBefore, result.table_used) :
            /\ result.query_executed
                  = ScanSql(result.table_used)
                    \o Predicate(req.question, dbBefore[i].cols) \o " LIMIT 50"
            /\ Predicate(req.question, dbBefore[i].cols) = ""
                  => ~Contains(result.query_executed, "WHERE")

\* C27, reached: a question about Germany answered from a table with a
\* Location and no Country found the row located there.
C27_LocatedInGermany ==
    /\ Routed
    /\ result.table_used = "Store"
    /\ Contains(result.query_executed, "WHERE Location LIKE '%Germany%'")
    /\ result.row_count = 1

\* The statement sql reads the table named exactly n and nothing else.
Addresses(sql, n) ==
    LET Reads(a) == a.k \in {"select", "pragma"} /\ a.tbl = n
    IN Reads(Parse(sql))

\* C30: for every table the catalog holds, one with a backtick or a double
\* quote in its name included, the statements built by putting the name
\* between backticks address that table: the name does not end the quoting
\* and does not change the statement.
C30_BackticksHoldTheName ==
    \A i \in 1..Len(stmts) : \A t \in 1..Len(dbBefore) :
        /\ dbBefore[t].type = "table"
        /\ stmts[i].sql \in {TableInfoSql(dbBefore[t].name), CountSql(dbBefore[t].name),
                             SampleSql(dbBefore[t].name, 2),
                             ForeignKeysSql(dbBefore[t].name)}
        => Addresses(stmts[i].sql, dbBefore[t].name)

\* The database as statement k of the request found it: with the change the
\* other process committed before that statement or an earlier one.
AsOf(k) ==
    IF other.act \in {"drop", "insert"} /\ other.at <= k
    THEN Committed(dbBefore, other.act, other.tbl)
    ELSE dbBefore

\* The values of the records a response holds, without the keys
Values(dicts) == [j \in 1..Len(dicts) |-> [k \in 1..Len(dicts[j]) |-> dicts[j][k][2]]]

\* The rows of table n of d, none when d has no such table
RowsOf(d, n) ==
    LET Rows(t) == IF Len(t) = 0 THEN <<>> ELSE t[1].rows
    IN Rows(SelectSeq(d, LAMBDA e : e.type = "table" /\ e.name = n))

\* The column names of table n of d, none when d has no such table
ColumnsOf(d, n) ==
    LET Names(t) == IF Len(t) = 0 THEN <<>> ELSE [j \in 1..Len(t[1].cols) |-> t[1].cols[j].name]
    IN Names(SelectSeq(d, LAMBDA e : e.type = "table" /\ e.name = n))

Answered(op) == req.op = op /\ result.status = "success"

\* C22: whatever other processes commit between and during the requests,
\* the table list, the column set and the rows of each response are those
\* the database held when the request's statement read them; nothing is a
\* table list, column set or row data kept from an earlier request.
C22_ReadAfresh ==
    /\ Answered("list_tables") => result.tables = Catalog(AsOf(1))
    /\ Answered("smart_query") => result.available_tables = Catalog(AsOf(1))
    /\ Answered("list_columns")
          => [j \in 1..Len(result.columns) |-> result.columns[j][2][2].v]
               = ColumnsOf(AsOf(2), req.table_name)
    /\ Answered("show_table")
          => Values(result.sample_data) = RowsOf(AsOf(3), req.table_name)
    /\ Answered("export_data")
          => Values(written.data) = RowsOf(AsOf(2), req.table_name)

\* C22, reached: an earlier request exported Customer; during this request
\* another process committed a row before the scan, and the response holds
\* that row, which the earlier response did not.
C22_SeesTheOthersRow ==
    /\ Answered("show_table")
    /\ written.table = "Customer"
    /\ other.act = "insert" /\ other.at <= 3
    /\ Values(result.sample_data) = RowsOf(Committed(dbBefore, "insert", "Customer"), "Customer")
    /\ Values(result.sample_data) # Values(written.data)

\* Statement i of the request needs a lock the other process holds: under
\* the other's write lock, a write that the engine would otherwise run;
\* under its exclusive lock, any statement that reads the file.
Stopped(i) ==
    /\ Busy([other |-> other], Parse(stmts[i].sql))
    /\ \/ other.act = "exclusive"
       \/ Eval(dbBefore, Parse(stmts[i].sql), stmts[i].sql, stmts[i].params).err = ""

\* A write request submitted a statement that the other process's lock
\* stops.
MetLock ==
    /\ req.op \in {"execute_sql", "query_database", "import_data"}
    /\ other.act \in {"reserved", "exclusive"}
    /\ \E i \in 1..Len(stmts) : Stopped(i)

C28_DroppedNeverSucceeds ==
    /\ req.op \in {"list_columns", "show_table", "export_data"}
    /\ other.act = "drop" /\ other.at = 2 /\ other.tbl = req.table_name
    /\ Len(stmts) >= 2
    => result.status = "error"

====
